---- MODULE Spec2Model ----
(***************************************************************************)
(* Customer collection store (Redux slice `customers`) of the CRM          *)
(* frontend, with the record mapper and the transport error chain it       *)
(* consumes.                                                               *)
(*                                                                         *)
(* JavaScript values are represented as follows.                           *)
(*   - a string is a sequence of one-character strings; an absent          *)
(*     (undefined) string-valued property is the value Absent;             *)
(*   - a number is an integer; an absent number-valued property is         *)
(*     undefinedNum;                                                       *)
(*   - null (state.error, a null response body or array element) is Null;  *)
(*   - error messages, action types and codes are plain TLA+ strings       *)
(*     (only their emptiness and identity matter to the code).             *)
(***************************************************************************)
EXTENDS Integers, Sequences, FiniteSets, Bags, TLC

VARIABLES store, inflight, overlapped, last, server, requests, form, call,
          toasts, clock, shownCount, page

vars == <<store, inflight, overlapped, last, server, requests, form, call,
          toasts, clock, shownCount, page>>

-----------------------------------------------------------------------------
(* Bounds of the model *)

\* most operations in flight at once
MaxInFlight == 2
\* length of the customers list below which records are still added to it
MaxLen == 2

-----------------------------------------------------------------------------
(* JavaScript values *)

Null == [null |-> TRUE]
Absent == <<"undefined">>
undefinedNum == -1

\* truthiness of a string-valued / number-valued property
TruthyStr(s) == s # Absent /\ s # <<>>
TruthyNum(n) == n # undefinedNum /\ n # 0

\* a || b
OrStr(a, b) == IF TruthyStr(a) THEN a ELSE b
OrNum(a, b) == IF TruthyNum(a) THEN a ELSE b

IsSpace(c) == c \in {" ", "\t", "\n"}
IsDigit(c) == c \in {"0", "1", "2", "3", "4", "5", "6", "7", "8", "9"}

RECURSIVE TrimStart(_)
TrimStart(s) ==
  IF s = <<>> THEN <<>>
  ELSE IF IsSpace(Head(s)) THEN TrimStart(Tail(s)) ELSE s

RECURSIVE TrimEnd(_)
TrimEnd(s) ==
  IF s = <<>> THEN <<>>
  ELSE IF IsSpace(s[Len(s)]) THEN TrimEnd(SubSeq(s, 1, Len(s) - 1)) ELSE s

\* String.prototype.trim
Trim(s) == TrimEnd(TrimStart(s))

\* Array.prototype.join
RECURSIVE Join(_, _)
Join(parts, sep) ==
  IF parts = <<>> THEN <<>>
  ELSE IF Len(parts) = 1 THEN parts[1]
  ELSE parts[1] \o sep \o Join(Tail(parts), sep)

\* String.prototype.slice(a, b) for 0 <= a <= b
Slice(s, a, b) == SubSeq(s, a + 1, IF b < Len(s) THEN b ELSE Len(s))

\* /^\d+$/.test(s)
AllDigits(s) == s # <<>> /\ \A i \in 1..Len(s) : IsDigit(s[i])

-----------------------------------------------------------------------------
(* Customer record mapper (utils/customerDataMapper) *)

\* part && part.trim()
NonBlank(part) == TruthyStr(part) /\ Trim(part) # <<>>

\* a combineFullName that puts the last name first
combineFullNameLastFirst(firstName, lastName) ==
  Join(SelectSeq(<<lastName, firstName>>, NonBlank), <<" ">>)

combineFullName(firstName, lastName) ==
  Join(SelectSeq(<<firstName, lastName>>, NonBlank), <<" ">>)

\* ISO timestamps the server sends in this model, and a malformed one
IsoJan15 == <<"2","0","2","4","-","0","1","-","1","5","T","1","2",":","0","0",":","0","0","Z">>
IsoMar02 == <<"2","0","2","3","-","0","3","-","0","2","T","1","2",":","0","0",":","0","0","Z">>
BadDate == <<"s","o","o","n">>

\* new Date(s).toLocaleDateString('en-US', {month:'short', day:'numeric', year:'numeric'})
toLocaleDateString(s) ==
  CASE s = IsoJan15 -> <<"J","a","n"," ","1","5",","," ","2","0","2","4">>
    [] s = IsoMar02 -> <<"M","a","r"," ","2",","," ","2","0","2","3">>
    [] OTHER -> <<"I","n","v","a","l","i","d"," ","D","a","t","e">>

formatDate(dateString) ==
  IF ~TruthyStr(dateString) THEN <<>> ELSE toLocaleDateString(dateString)

Usa == <<"U","S","A">>
Active == <<"A","c","t","i","v","e">>

\* +1 (XXX) XXX-XXXX
formatPhone(phone) ==
  IF Len(phone) = 10 /\ AllDigits(phone)
  THEN <<"+","1"," ","(">> \o Slice(phone, 0, 3) \o <<")"," ">>
       \o Slice(phone, 3, 6) \o <<"-">> \o Slice(phone, 6, Len(phone))
  ELSE phone

\* a conversion that copies id from the record instead of deriving it
fromApiFormatKeepingId(customer) ==
  [id |-> customer.id, accountId |-> OrNum(customer.accountId, customer.id),
   firstName |-> OrStr(customer.firstName, <<>>), lastName |-> OrStr(customer.lastName, <<>>),
   fullName |-> combineFullName(OrStr(customer.firstName, <<>>), OrStr(customer.lastName, <<>>)),
   email |-> OrStr(customer.email, <<>>), phone |-> formatPhone(OrStr(customer.phoneNumber, <<>>)),
   phoneNumber |-> OrStr(customer.phoneNumber, <<>>), address |-> OrStr(customer.address, <<>>),
   city |-> OrStr(customer.city, <<>>), state |-> OrStr(customer.state, <<>>),
   country |-> OrStr(customer.country, Usa), addressDisplay |-> <<>>,
   company |-> OrStr(customer.company, <<>>), status |-> OrStr(customer.status, Active),
   balance |-> OrNum(customer.balance, 0), joined |-> <<>>, dateCreated |-> <<>>]

\* fromApiFormat reads properties of its argument: a null argument raises
fromApiFormatThrows(customer) == customer = Null

fromApiFormat(customer) ==
  LET id == OrNum(customer.accountId, customer.id)
      fullName == combineFullName(OrStr(customer.firstName, <<>>),
                                  OrStr(customer.lastName, <<>>))
      Kept(part) == Trim(part) # <<>>
      addressParts == SelectSeq(<<OrStr(customer.address, <<>>),
                               OrStr(customer.city, <<>>)>>, Kept)
      address == Join(addressParts, <<",", " ">>)
      phone == formatPhone(OrStr(customer.phoneNumber, <<>>))
      dateCreated == formatDate(OrStr(OrStr(customer.dateCreated, customer.createdAt),
                                      customer.joined))
  IN [id |-> id,
      accountId |-> OrNum(customer.accountId, customer.id),
      firstName |-> OrStr(customer.firstName, <<>>),
      lastName |-> OrStr(customer.lastName, <<>>),
      fullName |-> fullName,
      email |-> OrStr(customer.email, <<>>),
      phone |-> phone,
      phoneNumber |-> OrStr(customer.phoneNumber, <<>>),
      address |-> OrStr(customer.address, <<>>),
      city |-> OrStr(customer.city, <<>>),
      state |-> OrStr(customer.state, <<>>),
      country |-> OrStr(customer.country, Usa),
      addressDisplay |-> address,
      company |-> OrStr(customer.company, <<>>),
      status |-> OrStr(customer.status, Active),
      balance |-> OrNum(customer.balance, 0),
      joined |-> dateCreated,
      dateCreated |-> dateCreated]

-----------------------------------------------------------------------------
(* Transport boundary (services/api/axiosClient): what a failed request     *)
(* rejects with.  A raw error is what axios hands the response interceptor: *)
(* kind "response" (the server answered with an error status), "request"    *)
(* (no response was received) or "setup".                                   *)

NoMessage == ""
BaseUrl == "http://localhost:3000"

RawNotFound == [kind |-> "response", status |-> 404, dataMessage |-> "Customer not found",
                dataError |-> NoMessage, code |-> "ERR_BAD_REQUEST",
                message |-> "Request failed with status code 404", requestResponse |-> FALSE]
RawNetworkError == [kind |-> "request", status |-> undefinedNum, dataMessage |-> NoMessage,
                    dataError |-> NoMessage, code |-> "ERR_NETWORK",
                    message |-> "Network Error", requestResponse |-> FALSE]

RawErrors == {RawNotFound, RawNetworkError}

\* a || b on messages
OrMsg(a, b) == IF a # NoMessage THEN a ELSE b

\* `Request failed with status ${status}`
RequestFailedWithStatus(status) ==
  CASE status = 404 -> "Request failed with status 404"
    [] status = 500 -> "Request failed with status 500"
    [] OTHER -> "Request failed with status N"

\* error.message?.includes(...)
IncludesTimeout(message) == message = "timeout of 30000ms exceeded"
IncludesNetworkErrorOrCors(message) == message = "Network Error"

\* the response interceptor's error handler: the value the request rejects with
responseErrorInterceptor(error) ==
  IF error.kind = "response"
  THEN [status |-> error.status,
        message |-> OrMsg(error.dataMessage,
                          OrMsg(error.dataError, RequestFailedWithStatus(error.status))),
        url |-> BaseUrl, method |-> "REQUEST"]
  ELSE IF error.kind = "request"
  THEN [status |-> 0,
        message |-> IF error.code = "ECONNREFUSED" THEN "Connection refused. Please ensure the backend server is running at http://localhost:3000"
                    ELSE IF error.code = "ETIMEDOUT" \/ IncludesTimeout(error.message)
                      THEN "Request timeout. The server took too long to respond."
                    ELSE IF IncludesNetworkErrorOrCors(error.message)
                      THEN "CORS error or network issue. Please check if the backend at http://localhost:3000 is running and CORS is configured correctly."
                    ELSE IF ~error.requestResponse THEN "No response from server. Please ensure the backend at http://localhost:3000 is running and accessible."
                    ELSE "Network error. Please check your connection.",
        url |-> BaseUrl, method |-> "REQUEST"]
  ELSE [status |-> 0,
        message |-> OrMsg(error.message, "An unexpected error occurred"),
        url |-> BaseUrl, method |-> "REQUEST"]

\* a failure is transport-level when no HTTP response was received
TransportLevel(raw) == raw.kind # "response"

-----------------------------------------------------------------------------
(* Service functions (services/api/customerService).  The outcome of a      *)
(* request is [ok |-> TRUE, data |-> body] or [ok |-> FALSE, raw |-> error]; *)
(* a service function returns the body or throws.                           *)

\* a rejection value is a record of the properties it has; a value that is
\* not an object (undefined, a string) has the field notObject only
IsObject(error) == "notObject" \notin DOMAIN error

\* error?.status, error?.message, error?.response?.status and
\* error?.response?.data?.message
StatusOf(error) == IF "status" \in DOMAIN error THEN error.status ELSE undefinedNum
MessageOf(error) == IF "message" \in DOMAIN error THEN error.message ELSE NoMessage
ResponseStatusOf(error) ==
  IF "response" \in DOMAIN error THEN error.response.status ELSE undefinedNum
ResponseMessageOf(error) ==
  IF "response" \in DOMAIN error THEN error.response.dataMessage ELSE NoMessage

\* a catch block that throws again whatever it caught
serviceCatchRethrowing(error, fallback) == error

\* the catch block shared by the four service functions
serviceCatch(error, fallback) ==
  IF IsObject(error) /\ StatusOf(error) # undefinedNum THEN error
  ELSE [status |-> OrNum(StatusOf(error), OrNum(ResponseStatusOf(error), 500)),
        message |-> OrMsg(MessageOf(error), OrMsg(ResponseMessageOf(error), fallback)),
        originalError |-> error]

fetchCustomersAPI(outcome) ==
  IF outcome.ok THEN [ok |-> TRUE, data |-> outcome.data]
  ELSE [ok |-> FALSE,
        error |-> serviceCatch(responseErrorInterceptor(outcome.raw),
                               "Failed to fetch customers")]

createCustomerAPI(outcome) ==
  IF outcome.ok THEN [ok |-> TRUE, data |-> outcome.data]
  ELSE [ok |-> FALSE,
        error |-> serviceCatch(responseErrorInterceptor(outcome.raw),
                               "Failed to create customer")]

updateCustomerAPI(outcome) ==
  IF outcome.ok THEN [ok |-> TRUE, data |-> outcome.data]
  ELSE [ok |-> FALSE,
        error |-> serviceCatch(responseErrorInterceptor(outcome.raw),
                               "Failed to update customer")]

deleteCustomerAPI(outcome) ==
  IF outcome.ok THEN [ok |-> TRUE, data |-> outcome.data]
  ELSE [ok |-> FALSE,
        error |-> serviceCatch(responseErrorInterceptor(outcome.raw),
                               "Failed to delete customer")]

-----------------------------------------------------------------------------
(* Records the server sends (API shape) *)

EmptyApiRecord ==
  [accountId |-> undefinedNum, id |-> undefinedNum, firstName |-> Absent,
   lastName |-> Absent, email |-> Absent, phoneNumber |-> Absent, address |-> Absent,
   city |-> Absent, state |-> Absent, country |-> Absent, dateCreated |-> Absent,
   createdAt |-> Absent, joined |-> Absent, company |-> Absent, status |-> Absent,
   balance |-> undefinedNum]

ApiJohn ==
  [EmptyApiRecord EXCEPT !.accountId = 1, !.firstName = <<"J","o">>,
     !.lastName = <<"D","o","e">>, !.email = <<"j","@","x",".","i","o">>,
     !.phoneNumber = <<"5","5","5","1","2","3","4","5","6","7">>,
     !.address = <<"1"," ","E","l","m">>, !.city = <<"T","r","o","y">>,
     !.state = <<"N","Y">>, !.dateCreated = IsoJan15]

ApiJane ==
  [EmptyApiRecord EXCEPT !.accountId = 2, !.firstName = <<"J","a","n","e">>,
     !.phoneNumber = <<"+","4","4","2","0">>, !.country = <<"U","K">>,
     !.createdAt = BadDate]

\* a record of the older API naming: id, no accountId
ApiLegacy ==
  [EmptyApiRecord EXCEPT !.id = 1, !.firstName = <<"A","l">>, !.city = <<"R","o","m","e">>]

ApiRecords == {ApiJohn, ApiJane}

\* ids a caller passes to update and to delete
UpdateIds == {2}
DeleteIds == {1}

-----------------------------------------------------------------------------
(* Async thunks (store/slices/customerSlice): the payload creator run on    *)
(* the service's result, giving the action createAsyncThunk dispatches      *)
(* when the operation settles.                                              *)

\* what a failed property read of null raises: an Error without status
TypeErrorOfNull ==
  [status |-> undefinedNum, message |-> "Cannot read properties of null"]

\* the catch block of a thunk: rejectWithValue({status, message})
rejectWithValue(error, fallback) ==
  [status |-> OrNum(error.status, 500), message |-> OrMsg(error.message, fallback)]

\* customers.map((customer) => fromApiFormat(customer))
mapFromApiFormat(customers) == [i \in 1..Len(customers) |-> fromApiFormat(customers[i])]

fetchCustomersAsync(result) ==
  IF result.ok
  THEN IF result.data.isArray
       THEN IF \E i \in 1..Len(result.data.items) :
                   fromApiFormatThrows(result.data.items[i])
            THEN [type |-> "customers/fetchCustomers/rejected",
                  payload |-> rejectWithValue(TypeErrorOfNull, "Failed to fetch customers")]
            ELSE [type |-> "customers/fetchCustomers/fulfilled",
                  payload |-> [isArray |-> TRUE,
                               items |-> mapFromApiFormat(result.data.items)]]
       ELSE [type |-> "customers/fetchCustomers/fulfilled", payload |-> result.data]
  ELSE [type |-> "customers/fetchCustomers/rejected",
        payload |-> rejectWithValue(result.error, "Failed to fetch customers")]

createCustomerAsync(result) ==
  IF result.ok
  THEN IF fromApiFormatThrows(result.data)
       THEN [type |-> "customers/createCustomer/rejected",
             payload |-> rejectWithValue(TypeErrorOfNull, "Failed to create customer")]
       ELSE [type |-> "customers/createCustomer/fulfilled",
             payload |-> fromApiFormat(result.data)]
  ELSE [type |-> "customers/createCustomer/rejected",
        payload |-> rejectWithValue(result.error, "Failed to create customer")]

updateCustomerAsync(id, result) ==
  IF result.ok
  THEN IF result.data = Null
       THEN [type |-> "customers/updateCustomer/rejected",
             payload |-> rejectWithValue(TypeErrorOfNull, "Failed to update customer")]
       ELSE [type |-> "customers/updateCustomer/fulfilled",
             payload |-> fromApiFormat(
               [result.data EXCEPT !.accountId = OrNum(result.data.accountId, id),
                                   !.id = OrNum(result.data.accountId, id)])]
  ELSE [type |-> "customers/updateCustomer/rejected",
        payload |-> rejectWithValue(result.error, "Failed to update customer")]

deleteCustomerAsync(id, result) ==
  IF result.ok
  THEN [type |-> "customers/deleteCustomer/fulfilled", payload |-> id]
  ELSE [type |-> "customers/deleteCustomer/rejected",
        payload |-> rejectWithValue(result.error, "Failed to delete customer")]

-----------------------------------------------------------------------------
(* The customers slice (store/slices/customerSlice): state and case         *)
(* reducers.  state.customers holds whatever the last fulfilled fetch       *)
(* returned: customersIsArray tells whether that value is an array (then    *)
(* customers is its elements) or some other value (then customers is <<>>). *)

initialState ==
  [customers |-> <<>>, customersIsArray |-> TRUE, searchTerm |-> <<>>,
   viewMode |-> "table", loading |-> FALSE, error |-> Null]

\* Faulty variants of case reducers, which the properties at the end of the
\* module tell apart from the reducers of the slice

\* a fetch that merges the response into the list it finds
fetchFulfilledMerging(state, action) ==
  [state EXCEPT !.loading = FALSE, !.error = Null,
                !.customers = state.customers \o action.payload.items,
                !.customersIsArray = action.payload.isArray]

\* a failed fetch that drops the loaded records
fetchRejectedClearing(state, action) ==
  [state EXCEPT !.loading = FALSE, !.error = action.payload, !.customers = <<>>]

\* a start of create that keeps the recorded error
createPendingKeepingError(state) == [state EXCEPT !.loading = TRUE]

\* a setSearchTerm that also ends loading
setSearchTermEndingLoading(state, action) ==
  [state EXCEPT !.searchTerm = action.payload, !.loading = FALSE]

\* a setViewMode that records an error
setViewModeRecordingError(state, action) ==
  [state EXCEPT !.viewMode = action.payload,
                !.error = [status |-> 400, message |-> "Unknown view mode"]]

\* a clearError that also ends the loading phase
clearErrorEndingLoading(state) == [state EXCEPT !.error = Null, !.loading = FALSE]

\* Array.prototype.findIndex over the callback's results, 1-based; 0 when no
\* element satisfies the callback (JS: -1)
FindIndex(hits) ==
  IF \E i \in 1..Len(hits) : hits[i]
  THEN CHOOSE i \in 1..Len(hits) : hits[i] /\ \A j \in 1..(i - 1) : ~hits[j]
  ELSE 0

DigitValue(c) ==
  CASE c = "0" -> 0 [] c = "1" -> 1 [] c = "2" -> 2 [] c = "3" -> 3 [] c = "4" -> 4
    [] c = "5" -> 5 [] c = "6" -> 6 [] c = "7" -> 7 [] c = "8" -> 8 [] c = "9" -> 9

RECURSIVE DigitsValue(_)
DigitsValue(s) ==
  IF s = <<>> THEN 0 ELSE 10 * DigitsValue(SubSeq(s, 1, Len(s) - 1)) + DigitValue(s[Len(s)])

\* parseFloat on a string of digits; NaN (falsy, here undefinedNum) otherwise
parseFloat(s) ==
  IF s # Absent /\ AllDigits(Trim(s)) THEN DigitsValue(Trim(s)) ELSE undefinedNum

\* the payload of addCustomer / the updates of updateCustomer: any subset of
\* a record's properties, the others absent; balance is the form's string
EmptyPayload ==
  [id |-> undefinedNum, accountId |-> undefinedNum, firstName |-> Absent,
   lastName |-> Absent, fullName |-> Absent, email |-> Absent, phone |-> Absent,
   phoneNumber |-> Absent, address |-> Absent, city |-> Absent, state |-> Absent,
   country |-> Absent, addressDisplay |-> Absent, company |-> Absent,
   status |-> Absent, balance |-> Absent, joined |-> Absent, dateCreated |-> Absent]

addCustomer(state, action) ==
  LET newCustomer ==
        [action.payload EXCEPT !.id = action.now,
                               !.joined = action.today,
                               !.balance = OrNum(parseFloat(action.payload.balance), 0)]
  IN [state EXCEPT !.customers = Append(state.customers, newCustomer)]

\* {...customer, ...updates}: a property of updates, when present, wins
SpreadStr(own, over) == IF over # Absent THEN over ELSE own
SpreadNum(own, over) == IF over # undefinedNum THEN over ELSE own

updateCustomer(state, action) ==
  LET Same(customer) == customer.id = action.payload.id
      index == FindIndex([i \in 1..Len(state.customers) |-> Same(state.customers[i])])
      c == state.customers[index]
      u == action.payload.updates
  IN IF index # 0
     THEN [state EXCEPT !.customers[index] =
            [id |-> SpreadNum(c.id, u.id),
             accountId |-> SpreadNum(c.accountId, u.accountId),
             firstName |-> SpreadStr(c.firstName, u.firstName),
             lastName |-> SpreadStr(c.lastName, u.lastName),
             fullName |-> SpreadStr(c.fullName, u.fullName),
             email |-> SpreadStr(c.email, u.email),
             phone |-> SpreadStr(c.phone, u.phone),
             phoneNumber |-> SpreadStr(c.phoneNumber, u.phoneNumber),
             address |-> SpreadStr(c.address, u.address),
             city |-> SpreadStr(c.city, u.city),
             state |-> SpreadStr(c.state, u.state),
             country |-> SpreadStr(c.country, u.country),
             addressDisplay |-> SpreadStr(c.addressDisplay, u.addressDisplay),
             company |-> SpreadStr(c.company, u.company),
             status |-> SpreadStr(c.status, u.status),
             balance |-> OrNum(parseFloat(u.balance), c.balance),
             joined |-> SpreadStr(c.joined, u.joined),
             dateCreated |-> SpreadStr(c.dateCreated, u.dateCreated)]]
     ELSE state

deleteCustomer(state, action) ==
  LET Kept(customer) == customer.id # action.payload
  IN [state EXCEPT !.customers = SelectSeq(state.customers, Kept)]

setSearchTerm(state, action) == [state EXCEPT !.searchTerm = action.payload]

setViewMode(state, action) == [state EXCEPT !.viewMode = action.payload]

setError(state, action) == [state EXCEPT !.error = action.payload]

clearError(state) == [state EXCEPT !.error = Null]

fetchPending(state) == [state EXCEPT !.loading = TRUE, !.error = Null]

fetchFulfilled(state, action) ==
  [state EXCEPT !.loading = FALSE, !.error = Null,
                !.customers = action.payload.items,
                !.customersIsArray = action.payload.isArray]

fetchRejected(state, action) ==
  [state EXCEPT !.loading = FALSE, !.error = action.payload]

createPending(state) == [state EXCEPT !.loading = TRUE, !.error = Null]

createFulfilled(state, action) ==
  [state EXCEPT !.loading = FALSE, !.error = Null,
                !.customers = Append(state.customers, action.payload)]

createRejected(state, action) ==
  [state EXCEPT !.loading = FALSE, !.error = action.payload]

updatePending(state) == [state EXCEPT !.loading = TRUE, !.error = Null]

updateFulfilled(state, action) ==
  LET updatedCustomer == action.payload
      Matches(customer) ==
        \/ customer.id = updatedCustomer.id
        \/ customer.id = updatedCustomer.accountId
        \/ customer.accountId = updatedCustomer.id
        \/ customer.accountId = updatedCustomer.accountId
      index == FindIndex([i \in 1..Len(state.customers) |-> Matches(state.customers[i])])
  IN IF index # 0
     THEN [state EXCEPT !.loading = FALSE, !.error = Null,
                        !.customers[index] = updatedCustomer]
     ELSE [state EXCEPT !.loading = FALSE, !.error = Null]

updateRejected(state, action) ==
  [state EXCEPT !.loading = FALSE, !.error = action.payload]

deletePending(state) == [state EXCEPT !.loading = TRUE, !.error = Null]

deleteFulfilled(state, action) ==
  LET deletedId == action.payload
      Kept(customer) == customer.id # deletedId /\ customer.accountId # deletedId
  IN [state EXCEPT !.loading = FALSE, !.error = Null,
                   !.customers = SelectSeq(state.customers, Kept)]

deleteRejected(state, action) ==
  [state EXCEPT !.loading = FALSE, !.error = action.payload]

\* the case reducers that call an array method on state.customers
UsesCustomersArray(type) ==
  type \in {"customers/addCustomer", "customers/updateCustomer", "customers/deleteCustomer",
            "customers/createCustomer/fulfilled", "customers/updateCustomer/fulfilled",
            "customers/deleteCustomer/fulfilled"}

\* push / findIndex / filter of a value that is not an array raises
customerReducerThrows(s, action) ==
  UsesCustomersArray(action.type) /\ ~s.customersIsArray

\* the slice reducer: the case reducer of the action's type
customerReducer(s, action) ==
  CASE action.type = "customers/addCustomer" -> addCustomer(s, action)
    [] action.type = "customers/updateCustomer" -> updateCustomer(s, action)
    [] action.type = "customers/deleteCustomer" -> deleteCustomer(s, action)
    [] action.type = "customers/setSearchTerm" -> setSearchTerm(s, action)
    [] action.type = "customers/setViewMode" -> setViewMode(s, action)
    [] action.type = "customers/setError" -> setError(s, action)
    [] action.type = "customers/clearError" -> clearError(s)
    [] action.type = "customers/fetchCustomers/pending" -> fetchPending(s)
    [] action.type = "customers/fetchCustomers/fulfilled" -> fetchFulfilled(s, action)
    [] action.type = "customers/fetchCustomers/rejected" -> fetchRejected(s, action)
    [] action.type = "customers/createCustomer/pending" -> createPending(s)
    [] action.type = "customers/createCustomer/fulfilled" -> createFulfilled(s, action)
    [] action.type = "customers/createCustomer/rejected" -> createRejected(s, action)
    [] action.type = "customers/updateCustomer/pending" -> updatePending(s)
    [] action.type = "customers/updateCustomer/fulfilled" -> updateFulfilled(s, action)
    [] action.type = "customers/updateCustomer/rejected" -> updateRejected(s, action)
    [] action.type = "customers/deleteCustomer/pending" -> deletePending(s)
    [] action.type = "customers/deleteCustomer/fulfilled" -> deleteFulfilled(s, action)
    [] action.type = "customers/deleteCustomer/rejected" -> deleteRejected(s, action)
    [] OTHER -> s

\* store.dispatch: a reducer that raises leaves the state as it was
Dispatched(s, action) ==
  IF customerReducerThrows(s, action) THEN s ELSE customerReducer(s, action)

-----------------------------------------------------------------------------
(* Inputs of the model *)

\* bodies GET /customer-accounts answers with: arrays of records (one with a
\* null element), or a value that is not an array
FetchArrays ==
  {<<>>, <<ApiJohn, ApiJane>>, <<ApiJane, ApiLegacy>>, <<ApiJohn, Null>>}

FetchBodies ==
  {[isArray |-> TRUE, items |-> items] : items \in FetchArrays}
  \cup {[isArray |-> FALSE, items |-> <<>>]}

FetchOutcomes ==
  {[ok |-> TRUE, data |-> body] : body \in FetchBodies}
  \cup {[ok |-> FALSE, raw |-> raw] : raw \in RawErrors}

\* POST and PATCH answer with a record, or with a null body
RecordOutcomes ==
  {[ok |-> TRUE, data |-> body] : body \in ApiRecords \cup {Null}}
  \cup {[ok |-> FALSE, raw |-> raw] : raw \in RawErrors}

\* DELETE answers 204 with an empty body
DeleteOutcomes ==
  {[ok |-> TRUE, data |-> <<>>]} \cup {[ok |-> FALSE, raw |-> raw] : raw \in RawErrors}

\* Date.now() and today's short date, as read by addCustomer
NowValues == {7}
Today == <<"N","o","v"," ","2",","," ","2","0","2","6">>

\* a payload that carries ids of its own
SeedJohn ==
  [EmptyPayload EXCEPT !.id = 1, !.accountId = 1, !.firstName = <<"J","o">>]

AddPayloads == {SeedJohn}

UpdatesJane == [EmptyPayload EXCEPT !.firstName = <<"J","o">>]

SearchTerms == {<<>>, <<"j","o">>}
ViewModes == {"table"}
ErrorPayloads == {[status |-> 500, message |-> "Server error"]}

-----------------------------------------------------------------------------
(* The store and the operations in flight.  inflight is the bag of started  *)
(* operations whose request has not settled.  History: overlapped tells     *)
(* whether two operations were in flight at once since inflight was last    *)
(* empty; last is the latest dispatch (its type, its argument, the          *)
(* request's outcome, whether the reducer raised, and the list, search      *)
(* term and view mode before it and whether an error was recorded).         *)

NoOutcome == [ok |-> TRUE, data |-> <<>>]

Before(s) ==
  [customers |-> s.customers, customersIsArray |-> s.customersIsArray,
   searchTerm |-> s.searchTerm, viewMode |-> s.viewMode,
   hadError |-> s.error # Null]

Op(kind, id) == [kind |-> kind, id |-> id]

\* what lies outside the store: the server's accounts and the requests it
\* has received (used where the server is modelled, below)
NoServer == [accounts |-> <<>>, nextId |-> 1, fetched |-> FALSE]

\* the modal last submitted and the errors its validation set (used where
\* the forms are modelled, below)
NoForm == [modal |-> "none", errors |-> {}]

\* the last call of a function of the service, the page or the mapper
NoCall == [fn |-> "none"]

\* the toast list with its timers, and the page's confirmation modal
toastUi == <<toasts, clock, shownCount>>
NoPage == [isConfirmModalOpen |-> FALSE, customerIdToDelete |-> undefinedNum,
           openedFor |-> undefinedNum, event |-> "none", confirmCalls |-> 0]

outside == <<server, requests, form, call, toastUi, page>>

Init ==
  /\ store = initialState
  /\ inflight = EmptyBag
  /\ overlapped = FALSE
  /\ last = [type |-> "@@INIT", id |-> 0, outcome |-> NoOutcome, threw |-> FALSE,
             pre |-> Before(initialState)]
  /\ server = NoServer
  /\ requests = <<>>
  /\ form = NoForm
  /\ call = NoCall
  /\ toasts = <<>>
  /\ clock = 0
  /\ shownCount = 0
  /\ page = NoPage

\* dispatch of a plain (synchronous) action
DispatchSync(action) ==
  /\ UNCHANGED outside
  /\ store' = Dispatched(store, action)
  /\ last' = [type |-> action.type, id |-> 0, outcome |-> NoOutcome,
              threw |-> customerReducerThrows(store, action), pre |-> Before(store),
              action |-> action]
  /\ UNCHANGED <<inflight, overlapped>>

\* dispatch of a thunk: its pending action is reduced and the request sent
StartOp(kind, id, pendingType) ==
  /\ BagCardinality(inflight) < MaxInFlight
  /\ store' = Dispatched(store, [type |-> pendingType])
  /\ inflight' = inflight (+) SetToBag({Op(kind, id)})
  /\ overlapped' = (inflight # EmptyBag)
  /\ last' = [type |-> pendingType, id |-> id, outcome |-> NoOutcome,
              threw |-> FALSE, pre |-> Before(store)]

Start(kind, id, pendingType) == StartOp(kind, id, pendingType) /\ UNCHANGED outside

\* the request of an operation in flight settles: the thunk resumes and
\* dispatches its fulfilled or rejected action
SettleOp(kind, id, outcome, action) ==
  /\ BagIn(Op(kind, id), inflight)
  /\ store' = Dispatched(store, action)
  /\ inflight' = inflight (-) SetToBag({Op(kind, id)})
  /\ UNCHANGED overlapped
  /\ last' = [type |-> action.type, id |-> id, outcome |-> outcome,
              threw |-> customerReducerThrows(store, action), pre |-> Before(store)]

Settle(kind, id, outcome, action) ==
  SettleOp(kind, id, outcome, action) /\ UNCHANGED outside

FetchStart == Start("fetch", 0, "customers/fetchCustomers/pending")

FetchSettle ==
  \E outcome \in FetchOutcomes :
    Settle("fetch", 0, outcome, fetchCustomersAsync(fetchCustomersAPI(outcome)))

CreateStart == Start("create", 0, "customers/createCustomer/pending")

CreateSettle ==
  \E outcome \in RecordOutcomes :
    LET action == createCustomerAsync(createCustomerAPI(outcome))
    IN /\ (action.type = "customers/createCustomer/fulfilled" /\ store.customersIsArray)
            => Len(store.customers) < MaxLen
       /\ Settle("create", 0, outcome, action)

UpdateStart == \E id \in UpdateIds : Start("update", id, "customers/updateCustomer/pending")

UpdateSettle ==
  \E id \in UpdateIds, outcome \in RecordOutcomes :
    Settle("update", id, outcome, updateCustomerAsync(id, updateCustomerAPI(outcome)))

DeleteStart == \E id \in DeleteIds : Start("delete", id, "customers/deleteCustomer/pending")

DeleteSettle ==
  \E id \in DeleteIds, outcome \in DeleteOutcomes :
    Settle("delete", id, outcome, deleteCustomerAsync(id, deleteCustomerAPI(outcome)))

AddCustomer ==
  \E payload \in AddPayloads, now \in NowValues :
    /\ store.customersIsArray => Len(store.customers) < MaxLen
    /\ DispatchSync([type |-> "customers/addCustomer", payload |-> payload,
                     now |-> now, today |-> Today])

UpdateCustomer ==
  \E id \in NowValues :
    DispatchSync([type |-> "customers/updateCustomer",
                  payload |-> [id |-> id, updates |-> UpdatesJane]])

DeleteCustomer ==
  \E id \in NowValues :
    DispatchSync([type |-> "customers/deleteCustomer", payload |-> id])

SetSearchTerm ==
  \E term \in SearchTerms :
    DispatchSync([type |-> "customers/setSearchTerm", payload |-> term])

SetViewMode ==
  \E mode \in ViewModes :
    DispatchSync([type |-> "customers/setViewMode", payload |-> mode])

SetError ==
  \E error \in ErrorPayloads :
    DispatchSync([type |-> "customers/setError", payload |-> error])

ClearError == DispatchSync([type |-> "customers/clearError"])

Next ==
  \/ FetchStart \/ FetchSettle
  \/ CreateStart \/ CreateSettle
  \/ UpdateStart \/ UpdateSettle
  \/ DeleteStart \/ DeleteSettle
  \/ AddCustomer \/ UpdateCustomer \/ DeleteCustomer
  \/ SetSearchTerm \/ SetViewMode \/ SetError \/ ClearError

Spec == Init /\ [][Next]_vars

-----------------------------------------------------------------------------
(* The store of one client against a server.  The server holds the         *)
(* accounts in server.accounts (in the order GET returns them) and gives   *)
(* each created account the next id; it applies each request it received   *)
(* atomically, which fixes the response, and responses are delivered in    *)
(* any order.  requests is the sequence of requests sent and not yet       *)
(* delivered; server.fetched tells whether a fetch has fulfilled.          *)

\* the account POST /customer-accounts creates, and PATCH's change to one
ServerRecord(n) == [EmptyApiRecord EXCEPT !.accountId = n, !.firstName = <<"J","o">>]
Patched(account) == [account EXCEPT !.lastName = <<"D","o","e">>]

\* the ids of the rows shown: customer.accountId || customer.id
RowIds ==
  {OrNum(store.customers[i].accountId, store.customers[i].id) :
     i \in 1..Len(store.customers)}

AccountIndex(id) ==
  IF \E i \in 1..Len(server.accounts) : server.accounts[i].accountId = id
  THEN CHOOSE i \in 1..Len(server.accounts) : server.accounts[i].accountId = id
  ELSE 0

Send(kind, id, pendingType) ==
  /\ StartOp(kind, id, pendingType)
  /\ requests' = Append(requests, [op |-> Op(kind, id), answered |-> FALSE,
                                    outcome |-> NoOutcome])
  /\ UNCHANGED <<server, form, call, toastUi, page>>

SendFetch == Send("fetch", 0, "customers/fetchCustomers/pending")

SendCreate ==
  /\ server.nextId + Len(SelectSeq(requests, LAMBDA r : r.op.kind = "create" /\ ~r.answered))
       <= MaxLen
  /\ Send("create", 0, "customers/createCustomer/pending")

SendUpdate == \E id \in RowIds : Send("update", id, "customers/updateCustomer/pending")

SendDelete == \E id \in RowIds : Send("delete", id, "customers/deleteCustomer/pending")

\* the server applies request i: its state changes and the response is fixed
Answer(i, outcome, accounts, nextId) ==
  /\ requests' = [requests EXCEPT ![i] = [op |-> requests[i].op, answered |-> TRUE,
                                          outcome |-> outcome]]
  /\ server' = [server EXCEPT !.accounts = accounts, !.nextId = nextId]
  /\ UNCHANGED <<store, inflight, overlapped, last, form, call, toastUi, page>>

ServeGet ==
  \E i \in 1..Len(requests) :
    /\ ~requests[i].answered /\ requests[i].op.kind = "fetch"
    /\ Answer(i, [ok |-> TRUE, data |-> [isArray |-> TRUE, items |-> server.accounts]],
              server.accounts, server.nextId)

ServePost ==
  \E i \in 1..Len(requests) :
    /\ ~requests[i].answered /\ requests[i].op.kind = "create"
    /\ Answer(i, [ok |-> TRUE, data |-> ServerRecord(server.nextId)],
              Append(server.accounts, ServerRecord(server.nextId)), server.nextId + 1)

ServePatch ==
  \E i \in 1..Len(requests) :
    /\ ~requests[i].answered /\ requests[i].op.kind = "update"
    /\ LET at == AccountIndex(requests[i].op.id)
       IN IF at = 0
          THEN Answer(i, [ok |-> FALSE, raw |-> RawNotFound], server.accounts, server.nextId)
          ELSE Answer(i, [ok |-> TRUE, data |-> Patched(server.accounts[at])],
                      [server.accounts EXCEPT ![at] = Patched(@)], server.nextId)

ServeDelete ==
  \E i \in 1..Len(requests) :
    /\ ~requests[i].answered /\ requests[i].op.kind = "delete"
    /\ LET at == AccountIndex(requests[i].op.id)
       IN IF at = 0
          THEN Answer(i, [ok |-> FALSE, raw |-> RawNotFound], server.accounts, server.nextId)
          ELSE Answer(i, [ok |-> TRUE, data |-> <<>>],
                      SelectSeq(server.accounts,
                                LAMBDA a : a.accountId # requests[i].op.id),
                      server.nextId)

\* what the thunk of an operation dispatches for the response
Settling(op, outcome) ==
  CASE op.kind = "fetch" -> fetchCustomersAsync(fetchCustomersAPI(outcome))
    [] op.kind = "create" -> createCustomerAsync(createCustomerAPI(outcome))
    [] op.kind = "update" -> updateCustomerAsync(op.id, updateCustomerAPI(outcome))
    [] op.kind = "delete" -> deleteCustomerAsync(op.id, deleteCustomerAPI(outcome))

\* the response to request i reaches the client
Deliver ==
  \E i \in 1..Len(requests) :
    LET r == requests[i]
        action == Settling(r.op, r.outcome)
    IN /\ r.answered
       /\ SettleOp(r.op.kind, r.op.id, r.outcome, action)
       /\ requests' = SubSeq(requests, 1, i - 1) \o SubSeq(requests, i + 1, Len(requests))
       /\ server' = [server EXCEPT !.fetched =
                       @ \/ action.type = "customers/fetchCustomers/fulfilled"]
       /\ UNCHANGED <<form, call, toastUi, page>>

ServerNext ==
  \/ SendFetch \/ SendCreate \/ SendUpdate \/ SendDelete
  \/ ServeGet \/ ServePost \/ ServePatch \/ ServeDelete
  \/ Deliver

SpecServer == Init /\ [][ServerNext]_vars

-----------------------------------------------------------------------------
(* The Add-customer and Edit-customer modals                                *)
(* (components/AddCustomerModal, components/EditCustomerModal): validation  *)
(* of the form data and what a submission dispatches.  form holds the modal *)
(* last submitted and the fields its validation marked.                     *)

\* [^\s@]+
NoSpaceNoAt(s) == s # <<>> /\ \A i \in 1..Len(s) : ~IsSpace(s[i]) /\ s[i] # "@"

\* /^[^\s@]+@[^\s@]+\.[^\s@]+$/.test(email)
validateEmail(email) ==
  \E i, j \in 1..Len(email) :
    /\ i < j
    /\ email[i] = "@"
    /\ email[j] = "."
    /\ NoSpaceNoAt(SubSeq(email, 1, i - 1))
    /\ NoSpaceNoAt(SubSeq(email, i + 1, j - 1))
    /\ NoSpaceNoAt(SubSeq(email, j + 1, Len(email)))

\* s.replace(/\D/g, '')
Digits(s) == SelectSeq(s, IsDigit)

\* [\d\s()-]+
PhoneChars(s) ==
  s # <<>> /\ \A i \in 1..Len(s) : IsDigit(s[i]) \/ IsSpace(s[i]) \/ s[i] \in {"(", ")", "-"}

\* AddCustomerModal.validatePhone: /^\+?[\d\s()-]+$/ and at least 10 digits
addValidatePhone(phone) ==
  /\ PhoneChars(IF phone # <<>> /\ Head(phone) = "+" THEN Tail(phone) ELSE phone)
  /\ Len(Digits(phone)) >= 10

\* AddCustomerModal.validateForm: the fields of newErrors
addErrors(formData) ==
  {f \in {"fullName", "email", "phone", "company", "address"} : Trim(formData[f]) = <<>>}
  \cup (IF Trim(formData.email) # <<>> /\ ~validateEmail(formData.email)
        THEN {"email"} ELSE {})
  \cup (IF Trim(formData.phone) # <<>> /\ ~addValidatePhone(formData.phone)
        THEN {"phone"} ELSE {})
  \cup (IF formData.balance # <<>> /\ parseFloat(formData.balance) = undefinedNum
        THEN {"balance"} ELSE {})

\* AddCustomerModal.validateForm: its result
addValidateForm(formData) == addErrors(formData) = {}

\* EditCustomerModal.validatePhone
editValidatePhone(phone, countryCode) ==
  PhoneChars(phone) /\ Len(Digits(phone)) = 9 /\ Len(Digits(countryCode)) >= 1

\* EditCustomerModal.validateForm: the fields of newErrors
editErrors(formData) ==
  {f \in {"firstName", "lastName", "email", "countryCode", "phoneNumber",
          "address", "city", "state"} : Trim(formData[f]) = <<>>}
  \cup (IF Trim(formData.email) # <<>> /\ ~validateEmail(formData.email)
        THEN {"email"} ELSE {})
  \cup (IF Trim(formData.countryCode) # <<>> /\ Len(Digits(formData.countryCode)) # 2
        THEN {"countryCode"} ELSE {})
  \cup (IF /\ Trim(formData.phoneNumber) # <<>>
           /\ ~editValidatePhone(formData.phoneNumber, formData.countryCode)
        THEN {"phoneNumber"} ELSE {})

\* a validation that lets a bad country code pass
editValidateFormIgnoringCode(formData) == editErrors(formData) \subseteq {"countryCode"}

\* EditCustomerModal.validateForm: its result
editValidateForm(formData) == editErrors(formData) = {}

\* the data of the Add-customer form: as first shown, and filled in
AddFormEmpty ==
  [fullName |-> <<>>, email |-> <<>>, phone |-> <<>>, company |-> <<>>,
   status |-> Active, balance |-> <<"0">>, address |-> <<>>]
FormAnna ==
  [AddFormEmpty EXCEPT !.fullName = <<"A","n","n","a">>, !.email = <<"a","@","x",".","i","o">>,
     !.phone = <<"5","5","5","7","6","5","4","3","2","1">>, !.company = <<"A","c","m","e">>, !.address = <<"9"," ","O","a","k">>]
AddForms ==
  {FormAnna, AddFormEmpty,
   [FormAnna EXCEPT !.email = <<"a","@","x">>],
   [FormAnna EXCEPT !.phone = <<"5","5","5">>],
   [FormAnna EXCEPT !.balance = <<"a","b","c">>],
   [FormAnna EXCEPT !.company = <<" ">>]}

\* the data of the Edit-customer form
FormEdit ==
  [firstName |-> <<"J","o">>, lastName |-> <<"D","o","e">>, email |-> <<"j","@","x",".","i","o">>, countryCode |-> <<"4","4">>,
   phoneNumber |-> <<"5","5","5","1","2","3","4","5","6">>, address |-> <<"1"," ","E","l","m">>, city |-> <<"T","r","o","y">>,
   state |-> <<"N","Y">>, country |-> Usa]
EditForms ==
  {FormEdit,
   [FormEdit EXCEPT !.lastName = <<>>],
   [FormEdit EXCEPT !.email = <<"j","@","x"," ","i","o">>],
   [FormEdit EXCEPT !.countryCode = <<"1">>],
   [FormEdit EXCEPT !.countryCode = <<"1","2","3">>],
   [FormEdit EXCEPT !.phoneNumber = <<"5","5","5","1","2","3","4","5","6","7">>],
   [FormEdit EXCEPT !.phoneNumber = <<"5","5","5","1","2","3","4","5">>],
   [FormEdit EXCEPT !.city = <<" ">>]}

\* addCustomer(formData): the action's payload
AddPayload(formData) ==
  [EmptyPayload EXCEPT !.fullName = formData.fullName, !.email = formData.email,
     !.phone = formData.phone, !.company = formData.company,
     !.status = formData.status, !.balance = formData.balance,
     !.address = formData.address]

\* AddCustomerModal.handleSubmit
SubmitAdd ==
  \E formData \in AddForms, now \in NowValues :
    /\ form' = [modal |-> "add", errors |-> addErrors(formData)]
    /\ UNCHANGED <<server, requests, call, toastUi, page>>
    /\ IF addValidateForm(formData)
       THEN /\ Len(store.customers) < MaxLen
            /\ LET action == [type |-> "customers/addCustomer",
                              payload |-> AddPayload(formData),
                              now |-> now, today |-> Today]
               IN /\ store' = Dispatched(store, action)
                  /\ last' = [type |-> action.type, id |-> 0, outcome |-> NoOutcome,
                              threw |-> customerReducerThrows(store, action),
                              pre |-> Before(store), action |-> action]
            /\ UNCHANGED <<inflight, overlapped>>
       ELSE UNCHANGED <<store, inflight, overlapped, last>>

\* EditCustomerModal.handleSubmit, the modal open on row i
SubmitEdit ==
  \E formData \in EditForms, i \in 1..Len(store.customers) :
    LET customer == store.customers[i]
    IN /\ form' = [modal |-> "edit", errors |-> editErrors(formData)]
       /\ UNCHANGED <<server, requests, call, toastUi, page>>
       /\ IF editValidateForm(formData)
          THEN StartOp("update", OrNum(customer.accountId, customer.id),
                       "customers/updateCustomer/pending")
          ELSE UNCHANGED <<store, inflight, overlapped, last>>

\* the response to a PATCH the Edit-customer modal sent
EditSettle ==
  \E op \in BagToSet(inflight), outcome \in RecordOutcomes :
    Settle(op.kind, op.id, outcome, updateCustomerAsync(op.id, updateCustomerAPI(outcome)))

FormsNext == SubmitAdd \/ SubmitEdit \/ EditSettle

SpecForms == Init /\ [][FormsNext]_vars

-----------------------------------------------------------------------------

(* Calls of single functions: a service function against a transport that   *)
(* rejects, the page's derived view, and the mapper's two conversions.      *)
(* call holds the function called last, its argument and its result.        *)

program == <<store, inflight, overlapped, last, server, requests, form, toastUi, page>>

ServiceFallback ==
  [fetchCustomers |-> "Failed to fetch customers",
   createCustomer |-> "Failed to create customer",
   updateCustomer |-> "Failed to update customer",
   deleteCustomer |-> "Failed to delete customer"]

\* errors of axios besides RawErrors: a timeout, a 500 without a message in
\* its body, and a failure while setting the request up
RawTimeout == [RawNetworkError EXCEPT !.code = "ECONNABORTED",
                                      !.message = "timeout of 30000ms exceeded"]
RawServerError == [RawNotFound EXCEPT !.status = 500, !.dataMessage = NoMessage,
                                      !.message = "Request failed with status code 500"]
RawSetupError == [RawNetworkError EXCEPT !.kind = "setup", !.code = "",
                                         !.message = NoMessage]

\* what the request interceptor rejects with
RequestSetupFailed == [status |-> 0, message |-> "Request setup failed"]

\* values without a status: exceptions with and without a message, an error
\* of axios that no interceptor formatted, and values that are not objects
PlainError == [message |-> "Network error"]
EmptyError == [message |-> NoMessage]
UnformattedAxiosError ==
  [message |-> "Request failed with status code 404",
   response |-> [status |-> 404, dataMessage |-> "Customer not found"]]
UnformattedAxiosErrorNoMessage ==
  [message |-> NoMessage, response |-> [status |-> 503, dataMessage |-> "Unavailable"]]
NotAnObject == [notObject |-> TRUE]

TransportRejections ==
  {responseErrorInterceptor(raw) :
     raw \in RawErrors \cup {RawTimeout, RawServerError, RawSetupError}}
  \cup {RequestSetupFailed,
        [status |-> 500, message |-> "Server error"],
        [status |-> 400, message |-> "Validation error"],
        PlainError, EmptyError, UnformattedAxiosError, UnformattedAxiosErrorNoMessage,
        NotAnObject}

\* a service function whose request the transport rejects with error
ServiceRejects ==
  \E fn \in DOMAIN ServiceFallback, error \in TransportRejections :
    /\ call' = [fn |-> fn, arg |-> error,
                result |-> serviceCatch(error, ServiceFallback[fn])]
    /\ UNCHANGED program


\* the longest list the derived view is computed for
MaxView == 3

\* String.prototype.toLowerCase
UpperCase == <<"A","B","C","D","E","F","G","H","I","J","K","L","M","N","O","P","Q","R","S","T","U","V","W","X","Y","Z">>
LowerCase == <<"a","b","c","d","e","f","g","h","i","j","k","l","m","n","o","p","q","r","s","t","u","v","w","x","y","z">>
toLowerCase(s) ==
  [i \in 1..Len(s) |->
     IF \E k \in 1..26 : UpperCase[k] = s[i]
     THEN LowerCase[CHOOSE k \in 1..26 : UpperCase[k] = s[i]]
     ELSE s[i]]

\* String.prototype.includes
includes(s, term) ==
  \E i \in 1..(Len(s) + 1) :
    i + Len(term) - 1 <= Len(s) /\ SubSeq(s, i, i + Len(term) - 1) = term

\* String(n) for a number n >= 0
RECURSIVE String(_)
String(n) ==
  IF n < 10 THEN <<<<"0","1","2","3","4","5","6","7","8","9">>[n + 1]>>
  ELSE String(n \div 10) \o <<<<"0","1","2","3","4","5","6","7","8","9">>[(n % 10) + 1]>>

\* the filter callback of filteredCustomers, term in lower case
matchesTerm(customer, term) ==
  LET fullName == OrStr(customer.fullName,
                        Trim(OrStr(customer.firstName, <<>>) \o <<" ">>
                             \o OrStr(customer.lastName, <<>>)))
      accountIdStr == IF TruthyNum(customer.accountId) THEN String(customer.accountId)
                      ELSE <<>>
      idStr == IF TruthyNum(customer.id) THEN String(customer.id) ELSE <<>>
  IN \/ includes(toLowerCase(fullName), term)
     \/ TruthyStr(customer.email) /\ includes(toLowerCase(customer.email), term)
     \/ TruthyStr(customer.phone) /\ includes(toLowerCase(customer.phone), term)
     \/ TruthyStr(customer.phoneNumber) /\ includes(customer.phoneNumber, term)
     \/ accountIdStr # <<>> /\ includes(toLowerCase(accountIdStr), term)
     \/ idStr # <<>> /\ includes(toLowerCase(idStr), term)
     \/ TruthyStr(customer.address) /\ includes(toLowerCase(customer.address), term)
     \/ TruthyStr(customer.city) /\ includes(toLowerCase(customer.city), term)

\* the number the sort compares: a.accountId || a.id || 0
sortNumber(customer) == OrNum(customer.accountId, OrNum(customer.id, 0))

\* Array.prototype.sort with (a, b) => Number(..A) - Number(..B): stable
RECURSIVE sortByAccountId(_)
sortByAccountId(result) ==
  IF result = <<>> THEN <<>>
  ELSE LET n == Len(result)
           front == sortByAccountId(SubSeq(result, 1, n - 1))
           k == Cardinality({i \in 1..(n - 1) : sortNumber(front[i]) <= sortNumber(result[n])})
       IN SubSeq(front, 1, k) \o <<result[n]>> \o SubSeq(front, k + 1, n - 1)

\* a derived view that keeps the order of the list
filteredCustomersUnsorted(customers, searchTerm) ==
  SelectSeq(customers, LAMBDA customer : searchTerm = <<>> \/ matchesTerm(customer, toLowerCase(searchTerm)))

\* the useMemo of CustomerAccounts: the matching records, sorted
filteredCustomers(customers, searchTerm) ==
  LET result == IF searchTerm # <<>>
                THEN SelectSeq(customers,
                               LAMBDA customer : matchesTerm(customer, toLowerCase(searchTerm)))
                ELSE customers
  IN sortByAccountId(result)

\* records the list can hold: images of API records, and one the Add-customer
\* form inserted (id from Date.now(), no accountId)
ApiTen ==
  [ApiJohn EXCEPT !.accountId = 10, !.firstName = <<"J","O","A","N">>, !.lastName = <<"R","o","e">>,
                  !.email = <<"r","@","y",".","i","o">>, !.city = <<"R","o","m","e">>]
AddedAnna ==
  [EmptyPayload EXCEPT !.id = 7, !.fullName = FormAnna.fullName, !.email = FormAnna.email,
     !.phone = FormAnna.phone, !.company = FormAnna.company, !.status = Active,
     !.balance = <<"0">>, !.address = FormAnna.address, !.joined = Today]
ViewRecords ==
  {fromApiFormat(ApiTen), fromApiFormat(ApiJane), fromApiFormat(ApiJohn), AddedAnna}

\* lists of distinct records, up to MaxView long
ViewLists ==
  UNION {{xs \in [1..n -> ViewRecords] : \A i, j \in 1..n : i # j => xs[i] # xs[j]} :
           n \in 0..MaxView}

ViewTerms == {<<>>, <<"J","O">>, <<"1">>, <<"r","o","m","e">>, <<"@","x">>}

\* the page renders: the view is computed from the list and the search term
RenderView ==
  \E customers \in ViewLists, searchTerm \in ViewTerms :
    /\ call' = [fn |-> "filteredCustomers",
                arg |-> [customers |-> customers, searchTerm |-> searchTerm],
                result |-> filteredCustomers(customers, searchTerm),
                customers |-> customers]  \* sort ran on the copy [...result]
    /\ UNCHANGED program


\* String.prototype.split on a one-character separator
RECURSIVE Split(_, _)
Split(s, sep) ==
  IF \E i \in 1..Len(s) : s[i] = sep
  THEN LET i == CHOOSE i \in 1..Len(s) : s[i] = sep /\ \A j \in 1..(i - 1) : s[j] # sep
       IN <<SubSeq(s, 1, i - 1)>> \o Split(SubSeq(s, i + 1, Len(s)), sep)
  ELSE <<s>>

\* s.split(/\s+/) for a trimmed, non-empty s
RECURSIVE SplitSpaces(_)
SplitSpaces(s) ==
  IF \E i \in 1..Len(s) : IsSpace(s[i])
  THEN LET i == CHOOSE i \in 1..Len(s) : IsSpace(s[i]) /\ \A j \in 1..(i - 1) : ~IsSpace(s[j])
       IN <<SubSeq(s, 1, i - 1)>> \o SplitSpaces(TrimStart(SubSeq(s, i, Len(s))))
  ELSE <<s>>

splitFullName(fullName) ==
  IF ~TruthyStr(fullName) THEN [firstName |-> <<>>, lastName |-> <<>>]
  ELSE LET nameParts == IF Trim(fullName) = <<>> THEN <<(<<>>)>>
                        ELSE SplitSpaces(Trim(fullName))
       IN IF Len(nameParts) = 1
          THEN [firstName |-> nameParts[1], lastName |-> <<>>]
          ELSE [firstName |-> nameParts[1], lastName |-> Join(Tail(nameParts), <<" ">>)]

IsUpper(c) == \E k \in 1..26 : UpperCase[k] = c

\* statePart.match(/^([A-Z]{2})(?:\s+\d{5})?$/)
StateMatch(statePart) ==
  /\ Len(statePart) >= 2
  /\ IsUpper(statePart[1]) /\ IsUpper(statePart[2])
  /\ \/ Len(statePart) = 2
     \/ LET rest == SubSeq(statePart, 3, Len(statePart))
        IN /\ Len(rest) >= 6
           /\ \A i \in 1..(Len(rest) - 5) : IsSpace(rest[i])
           /\ AllDigits(SubSeq(rest, Len(rest) - 4, Len(rest)))

parseAddress(addressString) ==
  IF ~TruthyStr(addressString)
  THEN [address |-> <<>>, city |-> <<>>, state |-> <<>>, country |-> Usa]
  ELSE LET split == Split(addressString, ",")
           parts == [i \in 1..Len(split) |-> Trim(split[i])]
       IN IF Len(parts) >= 3
          THEN [address |-> parts[1], city |-> parts[2],
                state |-> IF StateMatch(parts[3]) THEN SubSeq(parts[3], 1, 2)
                          ELSE Split(parts[3], " ")[1],
                country |-> IF Len(parts) >= 4 THEN parts[4] ELSE Usa]
          ELSE IF Len(parts) = 2
          THEN [address |-> parts[1], city |-> parts[2], state |-> <<>>, country |-> Usa]
          ELSE [address |-> addressString, city |-> <<>>, state |-> <<>>, country |-> Usa]

\* phone.replace(/[+\s\-()]/g, '')
StripPhone(phone) ==
  SelectSeq(phone, LAMBDA c : ~(IsSpace(c) \/ c \in {"+", "-", "(", ")"}))

toApiFormat(customer) ==
  LET name == splitFullName(OrStr(customer.fullName, <<>>))
      parsed == parseAddress(OrStr(customer.address, <<>>))
  IN [firstName |-> name.firstName,
      lastName |-> name.lastName,
      email |-> OrStr(customer.email, <<>>),
      phoneNumber |-> StripPhone(OrStr(customer.phone, <<>>)),
      address |-> parsed.address,
      city |-> parsed.city,
      state |-> parsed.state,
      country |-> parsed.country]

\* API records with names without whitespace, an email, a phone number of 9,
\* 10 or 11 digits, and address, city, state and country without commas
RoundTripRecords ==
  {[ApiJohn EXCEPT !.firstName = firstName, !.phoneNumber = phoneNumber,
                   !.city = city, !.state = state, !.country = country] :
     firstName \in {<<"J","o">>, <<"A","n","n">>},
     phoneNumber \in {<<"5","5","5","1","2","3","4","5","6","7">>, <<"4","4","2","0","7","1","2","3","4">>, <<"1","5","5","5","1","2","3","4","5","6","7">>},
     city \in {<<"T","r","o","y">>, <<"R","o","m","e">>},
     state \in {<<"N","Y">>, <<"C","A">>},
     country \in {Usa, <<"U","K">>}}

\* the display shape the mapper's test converts
TestDisplay ==
  [EmptyPayload EXCEPT !.fullName = <<"J","o","h","n"," ","D","o","e">>, !.email = <<"j","o","h","n","@","e","x","a","m","p","l","e",".","c","o","m">>,
     !.phone = <<"+","1"," ","(","5","5","5",")"," ","1","2","3","-","4","5","6","7">>, !.address = <<"1","2","3"," ","M","a","i","n"," ","S","t",","," ","N","e","w"," ","Y","o","r","k",","," ","N","Y">>]

\* a record is converted to its display shape and back
ConvertBack ==
  \E customer \in RoundTripRecords :
    /\ call' = [fn |-> "toApiFormat", arg |-> customer,
                display |-> fromApiFormat(customer),
                result |-> toApiFormat(fromApiFormat(customer))]
    /\ UNCHANGED program

\* a display record is converted for the API
ConvertForApi ==
  /\ call' = [fn |-> "toApiFormat", arg |-> Null, display |-> TestDisplay,
              result |-> toApiFormat(TestDisplay)]
  /\ UNCHANGED program


CallsNext == ServiceRejects \/ RenderView \/ ConvertBack \/ ConvertForApi

SpecCalls == Init /\ [][CallsNext]_vars

-----------------------------------------------------------------------------


(* Calls of the mapper's functions on their own (utils/customerMapper):     *)
(* call holds the function, its arguments, whether it raised and what it    *)
(* returned.                                                                *)

\* a combineAddress that joins the parts with blanks
combineAddressWithBlanks(address, city, state, country) ==
  Join(SelectSeq(<<address, city, state>>, NonBlank), <<" ">>)

\* a parsePhoneNumber that takes the first two digits as the country code
\* whether or not the number starts with +
parsePhoneNumberSplittingAlways(phoneNumber) ==
  LET digitsOnly == IF TruthyStr(phoneNumber) THEN Digits(phoneNumber) ELSE <<>>
  IN IF Len(digitsOnly) >= 2
     THEN [countryCode |-> SubSeq(digitsOnly, 1, 2),
           phoneNumber |-> SubSeq(digitsOnly, 3, Len(digitsOnly))]
     ELSE [countryCode |-> <<"1","1">>, phoneNumber |-> <<>>]

\* [address, city, state].filter((part) => part && part.trim()).join(', ')
\* + (country && country !== 'USA' ? `, ${country}` : '')
combineAddress(address, city, state, country) ==
  LET parts == SelectSeq(<<address, city, state>>,
                         LAMBDA part : TruthyStr(part) /\ Trim(part) # <<>>)
  IN Join(parts, <<",", " ">>)
     \o (IF TruthyStr(country) /\ country # Usa THEN <<",", " ">> \o country ELSE <<>>)

parsePhoneNumber(phoneNumber) ==
  LET default == [countryCode |-> <<"1","1">>, phoneNumber |-> <<>>]
  IN IF ~TruthyStr(phoneNumber) THEN default
     ELSE LET cleaned == Trim(phoneNumber)
          IN IF cleaned # <<>> /\ Head(cleaned) = "+"
             THEN LET digitsOnly == Digits(Tail(cleaned))
                  IN IF Len(digitsOnly) >= 2
                     THEN [countryCode |-> SubSeq(digitsOnly, 1, 2),
                           phoneNumber |-> SubSeq(digitsOnly, 3, Len(digitsOnly))]
                     ELSE IF Len(digitsOnly) = 1
                     THEN [countryCode |-> digitsOnly \o <<"1">>, phoneNumber |-> <<>>]
                     ELSE default
             ELSE [countryCode |-> <<"1","1">>, phoneNumber |-> Digits(cleaned)]

\* toApiFormat reads properties of its argument: a null argument raises
toApiFormatThrows(customer) == customer = Null

\* the parts an address is combined from
Streets == {<<"1"," ","E","l","m">>, <<"9"," ","O","a","k",","," ","A","p","t"," ","2">>, <<" ","1"," ","E","l","m">>, <<" ">>, <<>>}
Cities == {<<"T","r","o","y">>, <<"N","e","w"," ","Y","o","r","k">>, <<" ">>}
States == {<<"N","Y">>, <<"C","A">>}
Countries == {Usa, <<"U","K">>, Absent}

\* combineAddress, and parseAddress of what it returned
CombineAndParseAddress ==
  \E address \in Streets, city \in Cities, state \in States, country \in Countries :
    /\ call' = [fn |-> "parseAddress",
                arg |-> [address |-> address, city |-> city, state |-> state,
                         country |-> country],
                raised |-> FALSE,
                combined |-> combineAddress(address, city, state, country),
                result |-> parseAddress(combineAddress(address, city, state, country))]
    /\ UNCHANGED program

\* the names a full name is combined from
FirstNames == {<<>>, <<"J","o">>, <<"A","n","n">>, <<"J","o"," ">>}
LastNames == {<<>>, <<"D","o","e">>, <<"R","o","e">>, <<"v","a","n"," ","D","y","k">>}

\* combineFullName, and splitFullName of what it returned
CombineAndSplitName ==
  \E firstName \in FirstNames, lastName \in LastNames :
    /\ call' = [fn |-> "splitFullName",
                arg |-> [firstName |-> firstName, lastName |-> lastName],
                raised |-> FALSE,
                combined |-> combineFullName(firstName, lastName),
                result |-> splitFullName(combineFullName(firstName, lastName))]
    /\ UNCHANGED program

\* phone numbers as typed or stored
PhoneInputs ==
  {Absent, <<>>, <<"+","4","4","2","0","1","2","3","4","5","6","7","8">>, <<"1","2","3","4","5","6","7","8","9","0">>, <<"+","1"," ","(","5","5","5",")"," ","1","2","3","-","4","5","6","7">>, <<"+","4">>, <<"+">>,
   <<"+","-">>, <<" ","+","4","4","2","0">>, <<"(","5","5","5",")"," ","1","2","3">>, <<" "," ">>, <<"4","4","+","2","0">>, <<"+","4","4">>}

ParsePhone ==
  \E phoneNumber \in PhoneInputs :
    /\ call' = [fn |-> "parsePhoneNumber", arg |-> phoneNumber, raised |-> FALSE,
                result |-> parsePhoneNumber(phoneNumber)]
    /\ UNCHANGED program

\* arguments a caller can pass to the two conversions: null, an empty record,
\* a record without accountId and id, records of the API
ConversionInputs == {Null, EmptyApiRecord, [ApiJohn EXCEPT !.accountId = undefinedNum]}
                      \cup ApiRecords \cup {ApiLegacy}

ConvertFromApi ==
  \E customer \in ConversionInputs :
    /\ call' = [fn |-> "fromApiFormat", arg |-> customer,
                raised |-> fromApiFormatThrows(customer),
                result |-> IF fromApiFormatThrows(customer) THEN <<>>
                           ELSE fromApiFormat(customer)]
    /\ UNCHANGED program

ConvertToApi ==
  \E customer \in {Null, EmptyPayload, TestDisplay, AddedAnna} :
    /\ call' = [fn |-> "toApiFormat", arg |-> customer,
                raised |-> toApiFormatThrows(customer),
                result |-> IF toApiFormatThrows(customer) THEN <<>>
                           ELSE toApiFormat(customer)]
    /\ UNCHANGED program

\* the functions of strings called with absent arguments
CallWithAbsent ==
  /\ \E fn \in {"parseAddress", "combineAddress", "splitFullName", "combineFullName"} :
       call' = [fn |-> fn, arg |-> Absent, raised |-> FALSE,
                result |-> CASE fn = "parseAddress" -> parseAddress(Absent)
                             [] fn = "combineAddress"
                                  -> combineAddress(Absent, Absent, Absent, Absent)
                             [] fn = "splitFullName" -> splitFullName(Absent)
                             [] fn = "combineFullName" -> combineFullName(Absent, Absent)]
  /\ UNCHANGED program

MapperNext ==
  \/ CombineAndParseAddress
  \/ CombineAndSplitName
  \/ ParsePhone
  \/ ConvertFromApi
  \/ ConvertToApi
  \/ CallWithAbsent

SpecMapper == Init /\ [][MapperNext]_vars

-----------------------------------------------------------------------------


(* Toasts (context/ToastContext, components/Toast): toasts is the list the  *)
(* provider holds; each toast carries the time it was shown at and the time *)
(* its timer is due.  clock counts time in units of which every duration is *)
(* a multiple.  ToastContainer hands every Toast a new onClose function     *)
(* each time it renders, and the effect of Toast depends on onClose: when   *)
(* the list changes, the effect of every toast still shown is cleaned up    *)
(* (clearTimeout) and run again (setTimeout with the whole duration).       *)

MaxToasts == 2
MaxShown == 3
MaxClock == 4

\* durations showToast is called with: none (0) and two units
Durations == {0, 2}

\* the effect of Toast, run at time now: the timer it sets
ToastTimer(duration, now) == IF duration > 0 THEN now + duration ELSE undefinedNum

\* ToastContainer renders the list at time now: the effect of each toast that
\* was shown before runs again
RenderToasts(list, now) ==
  [i \in 1..Len(list) |->
     [list[i] EXCEPT !.timerDue = ToastTimer(list[i].duration, now),
                     !.restarted = @ \/ ToastTimer(list[i].duration, now) # list[i].timerDue]]

\* showToast(message, type, duration): the list with the new toast, rendered
showToast(duration) ==
  Append(RenderToasts(toasts, clock),
         [id |-> shownCount + 1, duration |-> duration, shownAt |-> clock,
          timerDue |-> ToastTimer(duration, clock), restarted |-> FALSE])

\* the duration showToast takes by default (5000 ms): the positive duration
\* of the model
DefaultDuration == CHOOSE duration \in Durations : duration > 0

\* a caller shows a toast
ShowToast ==
  \E duration \in Durations :
    /\ Len(toasts) < MaxToasts
    /\ shownCount < MaxShown
    /\ toasts' = showToast(duration)
    /\ shownCount' = shownCount + 1
    /\ UNCHANGED <<store, inflight, overlapped, last, server, requests, form, call,
                   clock, page>>

\* removeToast(id), and the render that follows
removeToast(id) ==
  /\ toasts' = RenderToasts(SelectSeq(toasts, LAMBDA toast : toast.id # id), clock)
  /\ UNCHANGED <<store, inflight, overlapped, last, server, requests, form, call,
                 clock, shownCount, page>>

\* the close button of a toast is clicked
CloseToast == \E i \in 1..Len(toasts) : removeToast(toasts[i].id)

\* the timer of a toast fires: its onClose runs
ToastTimerFires ==
  \E i \in 1..Len(toasts) :
    /\ toasts[i].timerDue = clock
    /\ removeToast(toasts[i].id)

\* time passes, once every timer that is due has fired
Tick ==
  /\ clock < MaxClock
  /\ \A i \in 1..Len(toasts) :
       toasts[i].timerDue = undefinedNum \/ toasts[i].timerDue > clock
  /\ clock' = clock + 1
  /\ UNCHANGED <<store, inflight, overlapped, last, server, requests, form, call,
                 toasts, shownCount, page>>

ToastsNext == ShowToast \/ CloseToast \/ ToastTimerFires \/ Tick

SpecToasts == Init /\ [][ToastsNext]_vars

-----------------------------------------------------------------------------


(* The page (pages/Customers/CustomerAccounts) and its confirmation modal   *)
(* (components/ConfirmationModal).  page holds isConfirmModalOpen and       *)
(* customerIdToDelete (undefinedNum for null).  History: openedFor is the   *)
(* id of the row whose delete button was clicked last, event the last       *)
(* handler of the page that ran, confirmCalls the number of calls of        *)
(* onConfirm since the delete button was clicked.  The page's other         *)
(* operations run alongside the delete; of them the model has the load of   *)
(* the list (FetchStart, FetchSettle), started at any time.                 *)

\* onClose of the modal, as the page passes it: the page's state after it
onCloseKeepingId == [page EXCEPT !.isConfirmModalOpen = FALSE]

onClose ==
  [page EXCEPT !.isConfirmModalOpen = FALSE, !.customerIdToDelete = undefinedNum]

\* handleDelete(id)
handleDelete(id) ==
  page' = [isConfirmModalOpen |-> TRUE, customerIdToDelete |-> id,
           openedFor |-> id, event |-> "delete", confirmCalls |-> 0]

\* the delete button of a row is clicked; it is disabled while loading
ClickDelete ==
  \E i \in 1..Len(store.customers) :
    /\ store.customersIsArray
    /\ ~store.loading
    /\ handleDelete(OrNum(store.customers[i].accountId, store.customers[i].id))
    /\ UNCHANGED <<store, inflight, overlapped, last, server, requests, form, call,
                   toastUi>>

\* confirmDelete, up to its await
confirmDelete ==
  IF TruthyNum(page.customerIdToDelete)
  THEN StartOp("delete", page.customerIdToDelete, "customers/deleteCustomer/pending")
  ELSE UNCHANGED <<store, inflight, overlapped, last>>

\* handleConfirm of the modal (the OK button): onConfirm(), then onClose()
handleConfirm ==
  /\ page.isConfirmModalOpen
  /\ confirmDelete
  /\ page' = [onClose EXCEPT !.event = "confirm",
                             !.confirmCalls = page.confirmCalls + 1]
  /\ UNCHANGED <<server, requests, form, call, toastUi>>

\* a handler of the modal that only calls onClose
Closes(event) ==
  /\ page.isConfirmModalOpen
  /\ page' = [onClose EXCEPT !.event = event]
  /\ UNCHANGED <<store, inflight, overlapped, last, server, requests, form, call,
                 toastUi>>

\* the Cancel button
CancelClicked == Closes("cancel")

\* handleBackdropClick, for a click on the backdrop itself
handleBackdropClick == Closes("backdrop")

\* handleEscape, for the Escape key while the modal is open
handleEscape == Closes("escape")

\* confirmDelete, after its await: the delete settles; a toast is shown when
\* it succeeded, and the pending id is cleared either way
DeleteSettles ==
  \E op \in BagToSet(inflight), outcome \in DeleteOutcomes :
    LET action == deleteCustomerAsync(op.id, deleteCustomerAPI(outcome))
        succeeded == /\ action.type = "customers/deleteCustomer/fulfilled"
                     /\ ~customerReducerThrows(store, action)
    IN /\ op.kind = "delete"
       /\ SettleOp("delete", op.id, outcome, action)
       /\ IF succeeded
          THEN /\ Len(toasts) < MaxToasts
               /\ shownCount < MaxShown
               /\ toasts' = showToast(DefaultDuration)
               /\ shownCount' = shownCount + 1
          ELSE UNCHANGED <<toasts, shownCount>>
       /\ page' = [page EXCEPT !.customerIdToDelete = undefinedNum, !.event = "settled"]
       /\ UNCHANGED <<server, requests, form, call, clock>>

PageNext ==
  \/ FetchStart \/ FetchSettle
  \/ ClickDelete \/ handleConfirm
  \/ CancelClicked \/ handleBackdropClick \/ handleEscape
  \/ DeleteSettles
  \/ CloseToast

SpecPage == Init /\ [][PageNext]_vars

-----------------------------------------------------------------------------


(* Properties.  Each reads the latest dispatch from last: after a step,     *)
(* last.type is the action reduced, last.outcome what the request gave and  *)
(* last.pre the store before it; last.action is the action a component      *)
(* dispatched directly.                                                     *)

PendingTypes ==
  {"customers/fetchCustomers/pending", "customers/createCustomer/pending",
   "customers/updateCustomer/pending", "customers/deleteCustomer/pending"}

FulfilledTypes ==
  {"customers/fetchCustomers/fulfilled", "customers/createCustomer/fulfilled",
   "customers/updateCustomer/fulfilled", "customers/deleteCustomer/fulfilled"}

RejectedTypes ==
  {"customers/fetchCustomers/rejected", "customers/createCustomer/rejected",
   "customers/updateCustomer/rejected", "customers/deleteCustomer/rejected"}

Range(xs) == {xs[i] : i \in 1..Len(xs)}

\* C1: when a fetch fulfils with an array R of server records, customers is
\* exactly fromApiFormat(r) for r in R, in R's order, whatever the list was
\* before (nothing of the prior list is merged in), loading is false and
\* error is null.
FetchFulfilledReplaces ==
  (last.type = "customers/fetchCustomers/fulfilled" /\ last.outcome.data.isArray)
    => /\ store.customersIsArray
       /\ store.customers = mapFromApiFormat(last.outcome.data.items)
       /\ store.loading = FALSE
       /\ store.error = Null

\* a fetch fulfilled with records over a list holding a record that the
\* response lacks: that record is gone
FetchFulfilledDroppedPrior ==
  /\ last.type = "customers/fetchCustomers/fulfilled"
  /\ last.outcome.data.isArray
  /\ Len(store.customers) >= 1
  /\ \E c \in Range(last.pre.customers) : c \notin Range(store.customers)

\* C2: when a fetch, create, update or delete is rejected, customers is the
\* same value (same records, same order) as immediately before the rejection.
RejectedKeepsCustomers ==
  last.type \in RejectedTypes
    => /\ store.customers = last.pre.customers
       /\ store.customersIsArray = last.pre.customersIsArray

\* a fetch rejected while records were loaded: they are still there
FetchRejectedOverLoadedList ==
  /\ last.type = "customers/fetchCustomers/rejected"
  /\ ~last.outcome.ok
  /\ last.pre.customersIsArray
  /\ Len(last.pre.customers) >= 2
  /\ store.customers = last.pre.customers

\* C8: the start of a fetch, create, update or delete sets loading to true
\* and error to null, and leaves customers, searchTerm and viewMode as they
\* were.
StartSetsLoadingClearsError ==
  last.type \in PendingTypes
    => /\ store.loading = TRUE
       /\ store.error = Null
       /\ store.customers = last.pre.customers
       /\ store.customersIsArray = last.pre.customersIsArray
       /\ store.searchTerm = last.pre.searchTerm
       /\ store.viewMode = last.pre.viewMode

\* an operation started while an error was recorded, records were loaded and
\* a search term was set
StartedOverRecordedError ==
  /\ last.type \in PendingTypes
  /\ last.pre.hadError
  /\ store.error = Null
  /\ Len(store.customers) >= 1
  /\ store.searchTerm # <<>>

\* C3: when delete(d) fulfils, customers is the prior list without the
\* records whose id or accountId equals d, the others unchanged and in their
\* prior order, loading is false and error is null.
DeleteFulfilledRemoves ==
  last.type = "customers/deleteCustomer/fulfilled"
    => LET d == last.id
           Kept(c) == c.id # d /\ c.accountId # d
       IN /\ store.customersIsArray
          /\ store.customers = SelectSeq(last.pre.customers, Kept)
          /\ store.loading = FALSE
          /\ store.error = Null

\* the same, for a delete that fulfils while customers holds an array
DeleteFulfilledRemovesFromArray ==
  (last.type = "customers/deleteCustomer/fulfilled" /\ last.pre.customersIsArray)
    => DeleteFulfilledRemoves

\* a delete fulfilled while customers holds the non-array body of a fetch:
\* the reducer raised and loading is still true
DeleteFulfilledOverNonArray ==
  /\ last.type = "customers/deleteCustomer/fulfilled"
  /\ ~last.pre.customersIsArray
  /\ last.threw
  /\ store.loading = TRUE

\* the record an update's fulfilled action carries
UpdatedRecord == updateCustomerAsync(last.id, updateCustomerAPI(last.outcome)).payload

\* C4: when update fulfils with mapped record u, the first record of
\* customers (lowest index) whose id or accountId equals u.id or u.accountId
\* is replaced by u, no other position changes, loading is false and error
\* is null.
UpdateFulfilledReplacesFirst ==
  last.type = "customers/updateCustomer/fulfilled"
    => LET u == UpdatedRecord
           prior == last.pre.customers
           Matches(c) == \/ c.id = u.id \/ c.id = u.accountId
                         \/ c.accountId = u.id \/ c.accountId = u.accountId
       IN /\ store.customersIsArray
          /\ store.loading = FALSE
          /\ store.error = Null
          /\ \A i \in 1..Len(prior) :
                (Matches(prior[i]) /\ \A j \in 1..(i - 1) : ~Matches(prior[j]))
                  => store.customers = [prior EXCEPT ![i] = u]

\* the same, for an update that fulfils while customers holds an array
UpdateFulfilledReplacesFirstInArray ==
  (last.type = "customers/updateCustomer/fulfilled" /\ last.pre.customersIsArray)
    => UpdateFulfilledReplacesFirst

\* an update fulfilled while customers holds the non-array body of a fetch
UpdateFulfilledOverNonArray ==
  /\ last.type = "customers/updateCustomer/fulfilled"
  /\ ~last.pre.customersIsArray
  /\ last.threw
  /\ store.loading = TRUE

\* C5: when create fulfils with server record r, customers is the prior list
\* with fromApiFormat(r) appended as its last element, loading is false and
\* error is null.
CreateFulfilledAppends ==
  last.type = "customers/createCustomer/fulfilled"
    => /\ store.customersIsArray
       /\ store.customers = Append(last.pre.customers, fromApiFormat(last.outcome.data))
       /\ store.loading = FALSE
       /\ store.error = Null

\* the same, for a create that fulfils while customers holds an array
CreateFulfilledAppendsToArray ==
  (last.type = "customers/createCustomer/fulfilled" /\ last.pre.customersIsArray)
    => CreateFulfilledAppends

\* a create fulfilled while customers holds the non-array body of a fetch
CreateFulfilledOverNonArray ==
  /\ last.type = "customers/createCustomer/fulfilled"
  /\ ~last.pre.customersIsArray
  /\ last.threw
  /\ store.loading = TRUE

\* {status, message} of the failure the transport rejected the request with
TransportFailure(raw) ==
  LET failure == responseErrorInterceptor(raw)
  IN [status |-> failure.status, message |-> failure.message]

\* C6: when a fetch, create, update or delete is rejected because the
\* transport failed with {status: s, message: m, ...}, state.error is exactly
\* {status: s, message: m} and loading is false.
RejectedRecordsTransportFailure ==
  (last.type \in RejectedTypes /\ ~last.outcome.ok)
    => /\ store.error = TransportFailure(last.outcome.raw)
       /\ store.loading = FALSE

\* the same, for the failures that carry an HTTP status of the server
RejectedRecordsHttpFailure ==
  (last.type \in RejectedTypes /\ ~last.outcome.ok /\ ~TransportLevel(last.outcome.raw))
    => RejectedRecordsTransportFailure

\* a request that got no response (transport status 0) recorded with
\* status 500
NoResponseRecordedAs500 ==
  /\ last.type \in RejectedTypes
  /\ ~last.outcome.ok
  /\ TransportFailure(last.outcome.raw).status = 0
  /\ store.error.status = 500
  /\ store.error.message = TransportFailure(last.outcome.raw).message

\* C7: after a failed operation, state.error.status is 0 exactly when the
\* failure was transport-level (no HTTP response from the server).
StatusZeroIffTransportLevel ==
  last.type \in RejectedTypes
    => ((store.error.status = 0)
          <=> (~last.outcome.ok /\ TransportLevel(last.outcome.raw)))

\* after a transport-level failure of a fetch no recorded status is 0
FetchNetworkFailureNotZero ==
  /\ last.type = "customers/fetchCustomers/rejected"
  /\ ~last.outcome.ok
  /\ TransportLevel(last.outcome.raw)
  /\ store.error.status # 0

\* C9: when operations were in flight at once, after the last of them
\* settles loading is false, and error is null if that last response
\* succeeded, or the {status, message} of its failure if it failed.
LastSettleDecides ==
  (overlapped /\ inflight = EmptyBag /\ last.type \in FulfilledTypes \cup RejectedTypes)
    => /\ store.loading = FALSE
       /\ last.type \in FulfilledTypes => store.error = Null
       /\ (last.type \in RejectedTypes /\ ~last.outcome.ok)
            => store.error = TransportFailure(last.outcome.raw)

\* the same, when the last response is a success reduced over an array or a
\* failure that carries an HTTP status
LastSettleDecidesOtherwise ==
  (/\ last.type \in FulfilledTypes => ~last.threw
   /\ (last.type \in RejectedTypes /\ ~last.outcome.ok) => ~TransportLevel(last.outcome.raw))
    => LastSettleDecides

\* two overlapping operations, the last to settle failing without a
\* response: its status 0 is not what error holds
LastSettleNoResponse ==
  /\ overlapped
  /\ inflight = EmptyBag
  /\ last.type \in RejectedTypes
  /\ ~last.outcome.ok
  /\ TransportLevel(last.outcome.raw)
  /\ store.error # TransportFailure(last.outcome.raw)

\* C10 as stated: while an operation is started and not settled, loading is
\* true, also when other operations settle in between.
LoadingWhileInFlight == inflight # EmptyBag => store.loading = TRUE

\* C10: the start of an operation sets loading to true, and loading stays
\* true until the next fulfilled or rejected action, of that operation or of
\* another, is reduced: no other action sets it to false.
LoadingUntilNextSettle ==
  [][/\ last'.type \in PendingTypes => store'.loading = TRUE
     /\ (store.loading = TRUE /\ last'.type \notin FulfilledTypes \cup RejectedTypes)
          => store'.loading = TRUE]_vars

\* two operations in flight and a plain action reduced after the later
\* start: loading is still true
LoadingWithTwoInFlight ==
  /\ BagCardinality(inflight) >= 2
  /\ last.type = "customers/clearError"
  /\ store.loading = TRUE

AccountIds(records) == {records[i].accountId : i \in 1..Len(records)}

\* C11: after any interleaving of fetch, create, update and delete requests
\* and their responses, no two records of customers have the same accountId.
NoDuplicateAccountIds ==
  \A i, j \in 1..Len(store.customers) :
    i # j => store.customers[i].accountId # store.customers[j].accountId

\* a created account that a fetch had already brought into the list is
\* appended again when the create response arrives after the fetch response
CreatedRecordTwice ==
  /\ last.type = "customers/createCustomer/fulfilled"
  /\ \E i \in 1..Len(last.pre.customers) :
       last.pre.customers[i].accountId = last.outcome.data.accountId
  /\ ~NoDuplicateAccountIds

\* C12: for one client of a server that applies requests atomically, when a
\* fetch has fulfilled and no operation is in flight, the accountIds in
\* customers are exactly the accounts the server holds.
ListMatchesServer ==
  (server.fetched /\ requests = <<>> /\ inflight = EmptyBag)
    => AccountIds(store.customers) = AccountIds(server.accounts)

\* every response delivered, the last of them a fetch response computed
\* before an account was created: the list lacks that account
StaleFetchLosesCreated ==
  /\ requests = <<>>
  /\ inflight = EmptyBag
  /\ last.type = "customers/fetchCustomers/fulfilled"
  /\ \E id \in AccountIds(server.accounts) : id \notin AccountIds(store.customers)

\* C13 as stated: error becomes non-null only by the rejection of a fetch,
\* create, update or delete; no other action of the store makes it non-null.
ErrorOnlyFromRejection ==
  (store.error # Null /\ ~last.pre.hadError) => last.type \in RejectedTypes

\* C13: error changes to a non-null value only by the rejection of a fetch,
\* create, update or delete or by the store's setError action; every other
\* action leaves error as it was or sets it to null.
ErrorOnlyFromRejectionOrSetError ==
  [][store'.error # store.error
       => \/ store'.error = Null
          \/ last'.type \in RejectedTypes \cup {"customers/setError"}]_vars

\* setError recorded an error where none was
ErrorFromSetError ==
  /\ last.type = "customers/setError"
  /\ ~last.pre.hadError
  /\ store.error # Null

\* C14: a record enters customers only when a create response succeeds (or a
\* fetch brings it): submitting the Add-customer form inserts no record of
\* its own, with a client-generated id, before or without the server's
\* confirmation.
RecordsEnterOnlyFromServer ==
  (last.pre.customersIsArray /\ store.customersIsArray
     /\ Len(store.customers) > Len(last.pre.customers))
    => last.type \in {"customers/createCustomer/fulfilled",
                      "customers/fetchCustomers/fulfilled"}

\* a valid Add-customer form submitted: no request is in flight and the list
\* ends with a record whose id is Date.now() and which has no accountId
ClientGeneratedRecord ==
  /\ form = [modal |-> "add", errors |-> {}]
  /\ last.type = "customers/addCustomer"
  /\ inflight = EmptyBag
  /\ store.customers # <<>>
  /\ store.customers[Len(store.customers)].id \in NowValues
  /\ store.customers[Len(store.customers)].accountId = undefinedNum

\* C17: a submission of the Add-customer or Edit-customer form that fails
\* validation starts no operation and sends no request, and leaves
\* customers, loading and error as they were; the errors are the form's.
InvalidSubmissionStartsNothing ==
  [][(form' # form /\ form'.errors # {})
       => UNCHANGED <<store, inflight, requests, last>>]_vars

\* an Edit-customer form that failed validation, over a loaded row, nothing
\* in flight and no error in the store
InvalidEditSubmitted ==
  /\ form.modal = "edit"
  /\ form.errors # {}
  /\ inflight = EmptyBag
  /\ store.customers # <<>>
  /\ store.loading = FALSE
  /\ store.error = Null

\* the operation a fulfilled or rejected action belongs to
FetchTypes == {"customers/fetchCustomers/fulfilled", "customers/fetchCustomers/rejected"}
RecordTypes == {"customers/createCustomer/fulfilled", "customers/createCustomer/rejected",
                "customers/updateCustomer/fulfilled", "customers/updateCustomer/rejected"}

\* fromApiFormat raised on the response of the operation that settled last
MapperRaised ==
  /\ last.outcome.ok
  /\ \/ /\ last.type \in FetchTypes
        /\ last.outcome.data.isArray
        /\ \E i \in 1..Len(last.outcome.data.items) : last.outcome.data.items[i] = Null
     \/ /\ last.type \in RecordTypes
        /\ last.outcome.data = Null

\* {status, message} of what the transport or the mapper raised, status 500
\* when the exception carries none
RaisedFailure ==
  IF last.outcome.ok
  THEN [status |-> 500, message |-> TypeErrorOfNull.message]
  ELSE TransportFailure(last.outcome.raw)

\* C15: every operation settles as fulfilled or rejected without throwing, and
\* when the transport or the mapper raised it ends rejected with
\* error = {status, message} and customers unchanged.
SettlesWithoutThrowing ==
  (last.type \in FulfilledTypes \cup RejectedTypes)
    => /\ ~last.threw
       /\ (~last.outcome.ok \/ MapperRaised)
            => /\ last.type \in RejectedTypes
               /\ store.error = RaisedFailure
               /\ store.customers = last.pre.customers
               /\ store.customersIsArray = last.pre.customersIsArray

\* the same, while customers is an array and the failure is not one the
\* transport reports with status 0
SettlesWithoutThrowingOtherwise ==
  (last.pre.customersIsArray
     /\ (last.outcome # NoOutcome /\ ~last.outcome.ok => ~TransportLevel(last.outcome.raw)))
    => SettlesWithoutThrowing

\* a fulfilled action whose reducer raised: the exception left the thunk, the
\* store still shows the operation as loading
FulfilledDispatchRaised ==
  /\ last.type \in FulfilledTypes
  /\ last.threw
  /\ inflight = EmptyBag
  /\ store.loading = TRUE
  /\ store.error = Null

\* a null element in the fetched array: the fetch ends rejected with status 500
NullElementRejected ==
  /\ last.type = "customers/fetchCustomers/rejected"
  /\ MapperRaised
  /\ store.error = [status |-> 500, message |-> TypeErrorOfNull.message]

\* C18: setSearchTerm(t) sets searchTerm to t and setViewMode(m) sets viewMode
\* to m; each changes nothing else of the state, raises nothing and starts or
\* ends no operation, also while operations are in flight.
SearchTermAndViewModeOnly ==
  [][/\ last'.type = "customers/setSearchTerm"
        => /\ store' = [store EXCEPT !.searchTerm = last'.action.payload]
           /\ ~last'.threw
           /\ UNCHANGED inflight
     /\ last'.type = "customers/setViewMode"
        => /\ store' = [store EXCEPT !.viewMode = last'.action.payload]
           /\ ~last'.threw
           /\ UNCHANGED inflight]_vars

\* a search term set while a request is in flight over a loaded list
SearchTermSetWhileLoading ==
  /\ last.type = "customers/setSearchTerm"
  /\ last.action.payload = <<"j","o">>
  /\ last.pre.searchTerm = <<>>
  /\ store.searchTerm = <<"j","o">>
  /\ inflight # EmptyBag
  /\ store.loading = TRUE
  /\ store.customers # <<>>

\* the functions of the service
ServiceFns == DOMAIN ServiceFallback

\* a rejection has a numeric status and a string message
HasStatusAndMessage(error) ==
  /\ IsObject(error)
  /\ StatusOf(error) \in Nat
  /\ MessageOf(error) # NoMessage

Occurrences(xs) ==
  [x \in Range(xs) |-> Cardinality({i \in 1..Len(xs) : xs[i] = x})]

\* the texts of a record a search looks at; absent and empty fields skipped
SearchedTexts(customer) ==
  {customer[f] : f \in {f \in {"fullName", "email", "phone", "phoneNumber", "address", "city"} :
                          TruthyStr(customer[f])}}
  \cup {String(customer[f]) : f \in {f \in {"accountId", "id"} :
                                       customer[f] # undefinedNum}}

\* case-insensitive substring match on one of the searched fields
Matches(customer, searchTerm) ==
  \E text \in SearchedTexts(customer) :
    includes(toLowerCase(text), toLowerCase(searchTerm))

\* the number a record is ordered by: accountId, else id, else 0
OrderNumber(customer) ==
  IF customer.accountId # undefinedNum THEN customer.accountId
  ELSE IF customer.id # undefinedNum THEN customer.id ELSE 0

EditedFields ==
  {"firstName", "lastName", "email", "phoneNumber", "address", "city", "state", "country"}

\* C20: for an API record r with whitespace-free names, an email, a digits-only
\* phoneNumber (also of 10 digits), comma-free address and city, a 2-letter
\* state and a country, toApiFormat(fromApiFormat(r)) has r's firstName,
\* lastName, email, phoneNumber, address, city, state and country.
RoundTripReproduces ==
  (call.fn = "toApiFormat" /\ call.arg # Null)
    => \A f \in EditedFields : call.result[f] = call.arg[f]

\* what the round trip does keep: the names, the email and the address, and
\* a phone number that is not 10 digits long
RoundTripKeepsNameEmailAddress ==
  (call.fn = "toApiFormat" /\ call.arg # Null)
    => /\ \A f \in {"firstName", "lastName", "email", "address"} :
            call.result[f] = call.arg[f]
       /\ Len(call.arg.phoneNumber) # 10 => call.result.phoneNumber = call.arg.phoneNumber
       /\ call.result.city = <<>> /\ call.result.state = <<>> /\ call.result.country = Usa

\* a record of Rome, CA, UK with a 10-digit phone number comes back with 11
\* digits, no city, no state and country USA
RoundTripLosesCity ==
  /\ call.fn = "toApiFormat"
  /\ call.arg # Null
  /\ call.arg.phoneNumber = <<"5","5","5","1","2","3","4","5","6","7">>
  /\ call.arg.country = <<"U","K">>
  /\ call.display.phone = <<"+","1"," ","(","5","5","5",")"," ","1","2","3","-","4","5","6","7">>
  /\ call.display.address = <<"1"," ","E","l","m">>
  /\ call.result.phoneNumber = <<"1","5","5","5","1","2","3","4","5","6","7">>
  /\ call.result.city = <<>>
  /\ call.result.state = <<>>
  /\ call.result.country = Usa

\* the mapper's test: a display record with a full address converts to its parts
TestDisplayConverted ==
  (call.fn = "toApiFormat" /\ call.arg = Null)
    => call.result = [firstName |-> <<"J","o","h","n">>, lastName |-> <<"D","o","e">>,
                      email |-> <<"j","o","h","n","@","e","x","a","m","p","l","e",".","c","o","m">>, phoneNumber |-> <<"1","5","5","5","1","2","3","4","5","6","7">>,
                      address |-> <<"1","2","3"," ","M","a","i","n"," ","S","t">>, city |-> <<"N","e","w"," ","Y","o","r","k">>,
                      state |-> <<"N","Y">>, country |-> Usa]

\* C30: after a fetch fulfils, customers is a sequence whose elements are the
\* fromApiFormat images of the elements of the response, whatever body the
\* transport returned; customers is a sequence in every reachable state.
CustomersIsSequence ==
  /\ store.customersIsArray
  /\ (last.type = "customers/fetchCustomers/fulfilled" /\ last.outcome.data.isArray)
       => store.customers = mapFromApiFormat(last.outcome.data.items)

\* the fetch of a body that is not an array fulfils and the body is stored
FetchStoredNonArray ==
  /\ last.type = "customers/fetchCustomers/fulfilled"
  /\ ~last.outcome.data.isArray
  /\ last.pre.customersIsArray
  /\ ~store.customersIsArray
  /\ store.loading = FALSE
  /\ store.error = Null

\* C28: loading = true implies that an operation has been started and has
\* not settled yet.
LoadingImpliesInFlight == store.loading = TRUE => inflight # EmptyBag

\* the same, while customers is an array
LoadingImpliesInFlightWhileArray == store.customersIsArray => LoadingImpliesInFlight

\* every started operation has settled and loading is still true
LoadingWithNothingInFlight ==
  /\ store.loading = TRUE
  /\ inflight = EmptyBag
  /\ last.threw
  /\ last.type = "customers/updateCustomer/fulfilled"

\* the positions where the list differs from the list before the step
ChangedPositions ==
  {i \in 1..Len(store.customers) :
     i > Len(last.pre.customers) \/ store.customers[i] # last.pre.customers[i]}

\* a record of the list before the step matches the updated record
UpdatedRecordMatches ==
  \E i \in 1..Len(last.pre.customers) :
    LET customer == last.pre.customers[i]
    IN \/ customer.id = UpdatedRecord.id
       \/ customer.id = UpdatedRecord.accountId
       \/ customer.accountId = UpdatedRecord.id
       \/ customer.accountId = UpdatedRecord.accountId

\* C27: a fulfilled update never changes the length of customers; loading
\* becomes false and error null; when no record matches the updated record
\* customers is unchanged, when one matches one position changes at most.
UpdateKeepsLength ==
  last.type = "customers/updateCustomer/fulfilled"
    => /\ ~last.threw
       /\ store.loading = FALSE
       /\ store.error = Null
       /\ store.customersIsArray = last.pre.customersIsArray
       /\ Len(store.customers) = Len(last.pre.customers)
       /\ ~UpdatedRecordMatches => store.customers = last.pre.customers
       /\ Cardinality(ChangedPositions) <= 1

\* the same, while customers is an array
UpdateKeepsLengthInArray ==
  last.pre.customersIsArray => UpdateKeepsLength

\* an update fulfilled over a list that holds no record of that id: the list
\* is as before, the updated record is not in it
UpdateOfMissingRecord ==
  /\ last.type = "customers/updateCustomer/fulfilled"
  /\ last.pre.customersIsArray
  /\ last.pre.customers # <<>>
  /\ ~UpdatedRecordMatches
  /\ store.customers = last.pre.customers
  /\ UpdatedRecord \notin Range(store.customers)
  /\ store.loading = FALSE

PlainPart(s) == s # <<>> /\ Trim(s) = s /\ \A i \in 1..Len(s) : s[i] # ","

\* a call of parseAddress on what combineAddress returned
ParsedCombined == call.fn = "parseAddress" /\ "combined" \in DOMAIN call

\* C21 (as stated): parseAddress(combineAddress(a, c, s, "USA")) is
\* {address: a, city: c, state: s, country: "USA"} for any non-empty a and c
\* and any 2-letter uppercase s.
ParseRecoversNonEmptyParts ==
  (ParsedCombined /\ call.arg.country = Usa
     /\ call.arg.address # <<>> /\ call.arg.city # <<>>)
    => call.result = [address |-> call.arg.address, city |-> call.arg.city,
                      state |-> call.arg.state, country |-> Usa]

\* C21 (amended): the same for a and c that hold no comma, are not blank and
\* have no whitespace at their ends.
ParseRecoversPlainParts ==
  (ParsedCombined /\ call.arg.country = Usa
     /\ PlainPart(call.arg.address) /\ PlainPart(call.arg.city))
    => call.result = [address |-> call.arg.address, city |-> call.arg.city,
                      state |-> call.arg.state, country |-> Usa]

\* a street, a city of two words and a state combined and recovered
AddressRecovered ==
  /\ ParsedCombined
  /\ call.arg = [address |-> <<"1"," ","E","l","m">>, city |-> <<"N","e","w"," ","Y","o","r","k">>, state |-> <<"C","A">>,
                 country |-> Usa]
  /\ call.combined = <<"1"," ","E","l","m",","," ","N","e","w"," ","Y","o","r","k",","," ","C","A">>
  /\ call.result = [address |-> <<"1"," ","E","l","m">>, city |-> <<"N","e","w"," ","Y","o","r","k">>, state |-> <<"C","A">>,
                    country |-> Usa]

NoWhitespace(s) == \A i \in 1..Len(s) : ~IsSpace(s[i])

\* a call of splitFullName on what combineFullName returned
SplitCombined == call.fn = "splitFullName" /\ "combined" \in DOMAIN call

\* C22 (as stated): splitFullName(combineFullName(f, l)) is
\* {firstName: f, lastName: l} whenever f and l hold no whitespace, also when
\* f or l is empty.
SplitRecoversNames ==
  (SplitCombined /\ NoWhitespace(call.arg.firstName) /\ NoWhitespace(call.arg.lastName))
    => call.result = [firstName |-> call.arg.firstName, lastName |-> call.arg.lastName]

\* C22 (amended): the same, unless f is empty and l is not: then l comes back
\* as the first name.
SplitRecoversNamesWithFirst ==
  (SplitCombined /\ NoWhitespace(call.arg.firstName) /\ NoWhitespace(call.arg.lastName))
    => call.result
         = (IF call.arg.firstName = <<>>
            THEN [firstName |-> call.arg.lastName, lastName |-> <<>>]
            ELSE [firstName |-> call.arg.firstName, lastName |-> call.arg.lastName])

\* a first and a last name combined and recovered
NameRecovered ==
  /\ SplitCombined
  /\ call.arg = [firstName |-> <<"A","n","n">>, lastName |-> <<"R","o","e">>]
  /\ call.combined = <<"A","n","n"," ","R","o","e">>
  /\ call.result = [firstName |-> <<"A","n","n">>, lastName |-> <<"R","o","e">>]

\* the rule of parsePhoneNumber, for an input that is present and not empty,
\* looked at as text
PhoneRule(text) ==
  IF text # <<>> /\ Head(text) = "+"
  THEN LET digits == Digits(Tail(text))
       IN IF Len(digits) >= 2
          THEN [countryCode |-> SubSeq(digits, 1, 2),
                phoneNumber |-> SubSeq(digits, 3, Len(digits))]
          ELSE IF Len(digits) = 1
          THEN [countryCode |-> digits \o <<"1">>, phoneNumber |-> <<>>]
          ELSE [countryCode |-> <<"1","1">>, phoneNumber |-> <<>>]
  ELSE [countryCode |-> <<"1","1">>, phoneNumber |-> Digits(text)]

\* C23 (as stated): parsePhoneNumber follows the rule for every input: the
\* default for an empty or absent input, the split after '+' when the input
\* starts with '+', and country code 11 with all digits otherwise.
PhoneFollowsRule ==
  call.fn = "parsePhoneNumber"
    => call.result = (IF call.arg \in {Absent, <<>>}
                      THEN [countryCode |-> <<"1","1">>, phoneNumber |-> <<>>]
                      ELSE PhoneRule(call.arg))

\* C23 (amended): the same, where "starts with '+'" is decided after the
\* whitespace at the ends of the input is removed.
PhoneFollowsRuleAfterTrim ==
  call.fn = "parsePhoneNumber"
    => call.result = (IF call.arg \in {Absent, <<>>}
                      THEN [countryCode |-> <<"1","1">>, phoneNumber |-> <<>>]
                      ELSE PhoneRule(Trim(call.arg)))

\* the number of the specification's example, split after its country code
PhoneSplit ==
  /\ call.fn = "parsePhoneNumber"
  /\ call.arg = <<"+","4","4","2","0","1","2","3","4","5","6","7","8">>
  /\ call.result = [countryCode |-> <<"4","4">>, phoneNumber |-> <<"2","0","1","2","3","4","5","6","7","8">>]

\* C24: no function of the mapper raises, whatever its arguments, and no
\* documented field of a result is undefined.
MapperIsTotal ==
  call.fn \in {"parseAddress", "combineAddress", "splitFullName", "combineFullName",
               "parsePhoneNumber", "toApiFormat", "fromApiFormat"}
    => /\ ~call.raised
       /\ call.fn = "fromApiFormat"
            => /\ call.result.id # undefinedNum
               /\ call.result.accountId # undefinedNum
               /\ \A f \in {"fullName", "phone", "address", "city", "state", "country",
                            "addressDisplay", "joined", "dateCreated", "firstName",
                            "lastName", "phoneNumber"} : call.result[f] # Absent
       /\ call.fn \in {"parseAddress", "splitFullName", "parsePhoneNumber", "toApiFormat"}
            => \A f \in DOMAIN call.result : call.result[f] # Absent

\* the same for arguments that are not null and records that have an id
MapperIsTotalOtherwise ==
  (call.fn \in {"fromApiFormat", "toApiFormat"}
     => /\ call.arg # Null
        /\ call.fn = "fromApiFormat"
             => TruthyNum(call.arg.accountId) \/ TruthyNum(call.arg.id))
    => MapperIsTotal

\* fromApiFormat called with null: it raised
ConversionOfNullRaised ==
  /\ call.fn = "fromApiFormat"
  /\ call.arg = Null
  /\ call.raised

\* fromApiFormat of a record without accountId and id: the result has neither
ConvertedWithoutId ==
  /\ call.fn = "fromApiFormat"
  /\ ~call.raised
  /\ call.result.id = undefinedNum
  /\ call.result.accountId = undefinedNum

\* C25: a toast shown with duration d > 0 is removed once d has elapsed since
\* it was shown, also when other toasts are shown or removed meanwhile: no
\* such toast is in the list later than d after it was shown.
ToastDismissedAfterDuration ==
  \A i \in 1..Len(toasts) :
    toasts[i].duration > 0 => clock <= toasts[i].shownAt + toasts[i].duration

\* the same for a toast whose timer was never set again
ToastDismissedAfterDurationAlone ==
  \A i \in 1..Len(toasts) :
    (toasts[i].duration > 0 /\ ~toasts[i].restarted)
      => clock <= toasts[i].shownAt + toasts[i].duration

\* a toast still shown later than its duration after it was shown, its timer
\* set again when another toast was shown or removed
ToastOutlivesDuration ==
  \E i \in 1..Len(toasts) :
    /\ toasts[i].duration > 0
    /\ toasts[i].restarted
    /\ clock > toasts[i].shownAt + toasts[i].duration
    /\ toasts[i].timerDue > clock

\* the delete operations in flight
DeletesInFlight ==
  BagCardinality(inflight) - CopiesIn(Op("fetch", 0), inflight)

\* C26: the page starts a delete only when the user confirms in the
\* confirmation modal, and then with the id (accountId, else id) of the row
\* whose delete button opened the modal; that step calls the confirm handler
\* once and closes the modal.  Cancel, a backdrop click and Escape close the
\* modal, clear the pending id and start no delete.
DeleteOnlyAfterConfirm ==
  [][/\ DeletesInFlight' > DeletesInFlight
          => /\ page.isConfirmModalOpen
             /\ page'.event = "confirm"
             /\ last'.type = "customers/deleteCustomer/pending"
             /\ last'.id = page.openedFor
             /\ page'.confirmCalls = 1
             /\ ~page'.isConfirmModalOpen
     /\ (page' # page /\ page'.event = "confirm")
          => /\ page.isConfirmModalOpen
             /\ page'.confirmCalls = page.confirmCalls + 1
             /\ ~page'.isConfirmModalOpen
             /\ DeletesInFlight' <= DeletesInFlight + 1
     /\ (page' # page /\ page'.event \in {"cancel", "backdrop", "escape"})
          => /\ page.isConfirmModalOpen
             /\ ~page'.isConfirmModalOpen
             /\ page'.customerIdToDelete = undefinedNum
             /\ UNCHANGED <<store, inflight>>]_vars

\* a delete started by the confirmation, for the row (account 2) whose delete
\* button opened the modal
DeleteStartedByConfirm ==
  /\ page.event = "confirm"
  /\ page.confirmCalls = 1
  /\ ~page.isConfirmModalOpen
  /\ page.openedFor = 2
  /\ last.type = "customers/deleteCustomer/pending"
  /\ last.id = 2
  /\ BagIn(Op("delete", 2), inflight)

\* the modal closed by Cancel, the pending id cleared and nothing in flight
ClosedByCancel ==
  /\ page.event = "cancel"
  /\ ~page.isConfirmModalOpen
  /\ page.openedFor = 2
  /\ page.customerIdToDelete = undefinedNum
  /\ inflight = EmptyBag

\* a confirmation that started nothing: the pending id was cleared by an
\* earlier delete that settled while the modal was open
ConfirmStartedNothing ==
  /\ page.event = "confirm"
  /\ page.confirmCalls = 1
  /\ page.openedFor = 2
  /\ DeletesInFlight = 0
====
